---- MODULE Spec2Model ----
(***************************************************************************)
(* Verification model of zopentimestamps: the .zots proof record and its   *)
(* binary codec (zots-core/src/proof.rs), the memo codec                   *)
(* (zots-zcash/src/memo.rs), the compact codec entry points                *)
(* (zots-wasm/src/lib.rs) and the verification flows of the CLI, the TUI   *)
(* and the desktop application.                                            *)
(*                                                                         *)
(* Byte strings are sequences over 0..255 and keep the lengths of the      *)
(* source (32-byte hashes and txids, 44-byte attestation records, 512-byte *)
(* memos).  Sequences are 1-indexed: the Rust slice data[a..b] is          *)
(* SubSeq(data, a+1, b).                                                   *)
(***************************************************************************)
EXTENDS Integers, Sequences, FiniteSets, TLC

VARIABLES
    pc,         \* position of the running scenario
    proof,      \* the TimestampProof value at hand
    newHash,    \* the hash that was given to TimestampProof::new
    added,      \* number of add_attestation calls made so far
    lastAtt,    \* argument of the latest add_attestation call
    buf,        \* output of the latest serialize call
    data,       \* bytes handed to deserialize
    dres,       \* result of the latest deserialize call
    memoHash,   \* the hash given to create_timestamp_memo
    memo,       \* the memo bytes at hand
    memoSrc,    \* where the memo bytes came from
    parsed,     \* result of the latest parse_timestamp_memo call
    fe,             \* verification front end: "cli", "tui" or "desktop"
    proofFile,      \* what is stored at the proof path
    supplied,       \* the file path or hash text the user supplied ("" for none)
    config,         \* whether a wallet configuration is available
    chain,          \* what the wallet collaborator finds for each txid
    walletCalls,    \* the calls made to the wallet collaborator, in order
    walletResult,   \* what verify_timestamp_tx returned
    taskMsg,        \* the message a background task has sent, not yet handled
    outcome,        \* what the front end reports
    verify_step,        \* tui App::verify_step
    verify_input_kind,  \* tui App::verify_input_kind
    operation_phase,    \* tui App::operation_phase
    task_running,       \* tui App::task_running
    verifying,          \* desktop ZotsApp::verifying
    file_hash_matches,  \* the comparison result carried into the wallet steps
    cproof,     \* the proof handed to the compact encoder
    ctext,      \* a compact string
    csrc,       \* where ctext comes from: "none", "encoded", "garbled", "foreign"
    cfmt,       \* result of the latest is_compact_format call
    cres,       \* result of the latest decode_proof call
    tIn,        \* a transaction id as it comes in: internal bytes or display text
    tAtt,       \* the attestation built from tIn, or the error
    tBytes,     \* result of the latest txid_bytes call
    tHex,       \* result of the latest txid_hex call
    hIn,        \* the text given to hash_from_hex_with
    hAlg,       \* the algorithm given to hash_from_hex_with
    hRes,       \* result of the latest hash_from_hex_with call
    hOut,       \* result of the latest hash_to_hex call
    sFe,        \* stamp front end: "cli", "tui" or "desktop"
    sArgs,      \* what the user handed to the stamp front end
    sHash,      \* the hash to timestamp and the output path
    sCalls,     \* the calls a stamp flow made to the wallet, in order
    sTx,        \* what create_timestamp_tx returned
    sStart,     \* start_height of wait_confirmation
    sRound,     \* passes of the loop of wait_confirmation made so far
    sConf,      \* what wait_confirmation returned on success
    sProof,     \* the proof a stamp flow holds
    sSaved,     \* what is stored at the output path
    sChan,      \* messages of the stamp task not yet handled
    sPhase,     \* tui App::operation_phase, desktop ZotsApp::stamp_phase
    sRunning,   \* tui App::task_running
    sOutcome,   \* what the stamp front end reports
    sBlock,     \* where the chain has put the broadcast transaction
    sPoll,      \* what sync and get_block_height answered in the latest pass
    sSaves,     \* how the proof.save calls of a stamp flow went, in order
    tapp,       \* the tui App
    tasks,      \* the background tasks the tui has spawned, in order
    task_rx,    \* the messages sent on the tui task channel, not yet received
    zapp,       \* the desktop ZotsApp
    ztasks      \* the run_stamp tasks the desktop has started, in order

coreVars == <<proof, newHash, added, lastAtt, buf, data, dres>>

memoVars == <<memoHash, memo, memoSrc, parsed>>

verifyVars == <<fe, proofFile, supplied, config, chain, walletCalls, walletResult,
                taskMsg, outcome, verify_step, verify_input_kind, operation_phase,
                task_running, verifying, file_hash_matches>>

compactVars == <<cproof, ctext, csrc, cfmt, cres>>

txidVars == <<tIn, tAtt, tBytes, tHex>>

hexVars == <<hIn, hAlg, hRes, hOut>>

stampVars == <<sFe, sArgs, sHash, sCalls, sTx, sStart, sRound, sConf, sProof, sSaved,
               sChan, sPhase, sRunning, sOutcome, sBlock, sPoll, sSaves>>

tuiVars == <<tapp, tasks, task_rx>>

deskVars == <<zapp, ztasks>>

vars == <<pc, coreVars, memoVars, verifyVars, compactVars, txidVars, hexVars, stampVars,
          tuiVars, deskVars>>

nonCore == <<memoVars, verifyVars, compactVars, txidVars, hexVars, stampVars,
            tuiVars, deskVars>>

nonMemo == <<coreVars, verifyVars, compactVars, txidVars, hexVars, stampVars,
            tuiVars, deskVars>>

nonVerify == <<coreVars, memoVars, compactVars, txidVars, hexVars, stampVars,
            tuiVars, deskVars>>

nonCompact == <<coreVars, memoVars, verifyVars, txidVars, hexVars, stampVars,
            tuiVars, deskVars>>

nonTxid == <<coreVars, memoVars, verifyVars, compactVars, hexVars, stampVars,
            tuiVars, deskVars>>

nonHex == <<coreVars, memoVars, verifyVars, compactVars, txidVars, stampVars,
            tuiVars, deskVars>>

nonStamp == <<coreVars, memoVars, verifyVars, compactVars, txidVars, hexVars,
            tuiVars, deskVars>>

nonTui == <<coreVars, memoVars, verifyVars, compactVars, txidVars, hexVars, stampVars,
            deskVars>>

nonDesk == <<coreVars, memoVars, verifyVars, compactVars, txidVars, hexVars, stampVars,
             tuiVars>>

-----------------------------------------------------------------------------
(* Bounds of the exploration *)

\* longest attestation list built from freely chosen attestations
MaxAtts == 3

-----------------------------------------------------------------------------
(* Bytes and little-endian integers *)

U8Mod == 256

Rep(n, b) == [i \in 1..n |-> b]

\* u32::to_le_bytes
to_le_bytes32(n) ==
    << n % 256, (n \div 256) % 256, (n \div 65536) % 256, (n \div 16777216) % 256 >>

\* u16::to_le_bytes
to_le_bytes16(n) == << n % 256, (n \div 256) % 256 >>

\* u32::from_le_bytes
from_le_bytes32(b) == b[1] + 256 * b[2] + 65536 * b[3] + 16777216 * b[4]

\* u16::from_le_bytes
from_le_bytes16(b) == b[1] + 256 * b[2]

\* usize as u8
as_u8(n) == n % U8Mod

Ok(v) == [ok |-> TRUE, val |-> v]

InvalidProof(msg, arg) == [ok |-> FALSE, kind |-> "InvalidProof", msg |-> msg, arg |-> arg]

NoResult == [ok |-> FALSE, kind |-> "none", msg |-> "", arg |-> 0]

-----------------------------------------------------------------------------
(* zots-core/src/proof.rs *)

ZOTS_MAGIC == << 0, 122, 79, 84, 83, 0, 0, 1 >>

PROOF_VERSION == 1

HASH_TYPE_SHA256 == 0

ATTESTATION_TYPE_ZCASH == 1

HashLen == 32

AttLen == 44

Networks == {"Mainnet", "Testnet"}

Network_to_byte(n) == IF n = "Mainnet" THEN 0 ELSE 1

Network_from_byte(b) ==
    IF b = 0 THEN Ok("Mainnet")
    ELSE IF b = 1 THEN Ok("Testnet")
    ELSE InvalidProof("Unknown network byte", b)

ZcashAttestation(network, txid, block_height, block_time, memo_offset) ==
    [network |-> network, txid |-> txid, block_height |-> block_height,
     block_time |-> block_time, memo_offset |-> memo_offset]

\* TimestampProof::new
new(hash) == [version |-> PROOF_VERSION, hash |-> hash, attestations |-> << >>]

\* TimestampProof::add_attestation, with a duplicate check the code does not have
add_attestation_dedup(p, att) ==
    IF \E i \in 1..Len(p.attestations) : p.attestations[i] = att
    THEN p
    ELSE [p EXCEPT !.attestations = Append(@, att)]

\* TimestampProof::add_attestation
add_attestation(p, att) == [p EXCEPT !.attestations = Append(@, att)]

\* TimestampProof::is_confirmed asking for more than one attestation
is_confirmed_several(p) == Len(p.attestations) > 1

\* TimestampProof::is_confirmed
is_confirmed(p) == ~ (Len(p.attestations) = 0)

\* the body of the loop of TimestampProof::serialize
serialize_att(att) ==
    << ATTESTATION_TYPE_ZCASH, Network_to_byte(att.network) >>
        \o att.txid
        \o to_le_bytes32(att.block_height)
        \o to_le_bytes32(att.block_time)
        \o to_le_bytes16(att.memo_offset)

\* the bytes the loop of TimestampProof::serialize appends: one AttLen-byte
\* record per attestation, in list order
serialize_atts(atts) ==
    [k \in 1..(AttLen * Len(atts)) |->
        serialize_att(atts[((k - 1) \div AttLen) + 1])[((k - 1) % AttLen) + 1]]

\* TimestampProof::serialize
serialize(p) ==
    ZOTS_MAGIC
        \o << p.version >>
        \o << HASH_TYPE_SHA256 >>
        \o p.hash
        \o << as_u8(Len(p.attestations)) >>
        \o serialize_atts(p.attestations)

\* pass i of the loop of TimestampProof::deserialize; the records have a fixed
\* size, so pass i reads at the 0-based offset `first + AttLen * i`
parse_attestation(d, first, i) ==
    LET offset == first + AttLen * i
    IN  IF Len(d) < offset + AttLen THEN InvalidProof("Truncated at attestation", i)
        ELSE IF d[offset + 1] # ATTESTATION_TYPE_ZCASH
             THEN InvalidProof("Unknown attestation type", d[offset + 1])
        ELSE LET network == Network_from_byte(d[offset + 2])
             IN  IF ~ network.ok THEN network
                 ELSE Ok(ZcashAttestation(
                        network.val,
                        SubSeq(d, offset + 3, offset + 34),
                        from_le_bytes32(SubSeq(d, offset + 35, offset + 38)),
                        from_le_bytes32(SubSeq(d, offset + 39, offset + 42)),
                        from_le_bytes16(SubSeq(d, offset + 43, offset + 44))))

\* the loop of TimestampProof::deserialize returning the attestations read
\* before the first failing pass instead of that pass's error
parse_attestations_partial(d, first, num_attestations) ==
    LET failing == { i \in 0..(num_attestations - 1) : ~ parse_attestation(d, first, i).ok }
    IN  IF failing # {}
        THEN LET f == CHOOSE i \in failing : \A j \in failing : i <= j
             IN  Ok([i \in 1..f |-> parse_attestation(d, first, i - 1).val])
        ELSE Ok([i \in 1..num_attestations |-> parse_attestation(d, first, i - 1).val])

\* the loop of TimestampProof::deserialize: the first failing pass ends the
\* call with its error, otherwise every pass pushes its attestation
parse_attestations(d, first, num_attestations) ==
    LET failing == { i \in 0..(num_attestations - 1) : ~ parse_attestation(d, first, i).ok }
    IN  IF failing # {}
        THEN parse_attestation(d, first,
                CHOOSE i \in failing : \A j \in failing : i <= j)
        ELSE Ok([i \in 1..num_attestations |-> parse_attestation(d, first, i - 1).val])

\* TimestampProof::deserialize without the version comparison
deserialize_any_version(d) ==
    IF Len(d) < 8 THEN InvalidProof("File too small", 0)
    ELSE IF SubSeq(d, 1, 8) # ZOTS_MAGIC THEN InvalidProof("Invalid magic header", 0)
    ELSE IF Len(d) < 9 THEN InvalidProof("Truncated at version", 0)
    ELSE IF Len(d) < 10 THEN InvalidProof("Truncated at hash type", 0)
    ELSE IF d[10] # HASH_TYPE_SHA256 THEN InvalidProof("Unsupported hash type", d[10])
    ELSE IF Len(d) < 10 + HashLen THEN InvalidProof("Truncated at hash", 0)
    ELSE IF Len(d) < 11 + HashLen THEN InvalidProof("Truncated at attestation count", 0)
    ELSE LET atts == parse_attestations(d, 11 + HashLen, d[11 + HashLen])
         IN  IF ~ atts.ok THEN atts
             ELSE Ok([version |-> d[9], hash |-> SubSeq(d, 11, 10 + HashLen),
                      attestations |-> atts.val])

\* TimestampProof::deserialize
deserialize(d) ==
    IF Len(d) < 8 THEN InvalidProof("File too small", 0)
    ELSE IF SubSeq(d, 1, 8) # ZOTS_MAGIC THEN InvalidProof("Invalid magic header", 0)
    ELSE IF Len(d) < 9 THEN InvalidProof("Truncated at version", 0)
    ELSE IF d[9] # PROOF_VERSION THEN InvalidProof("Unsupported version", d[9])
    ELSE IF Len(d) < 10 THEN InvalidProof("Truncated at hash type", 0)
    ELSE IF d[10] # HASH_TYPE_SHA256 THEN InvalidProof("Unsupported hash type", d[10])
    ELSE IF Len(d) < 10 + HashLen THEN InvalidProof("Truncated at hash", 0)
    ELSE IF Len(d) < 11 + HashLen THEN InvalidProof("Truncated at attestation count", 0)
    ELSE LET atts == parse_attestations(d, 11 + HashLen, d[11 + HashLen])
         IN  IF ~ atts.ok THEN atts
             ELSE Ok([version |-> d[9], hash |-> SubSeq(d, 11, 10 + HashLen),
                      attestations |-> atts.val])

-----------------------------------------------------------------------------
(* zots-zcash/src/memo.rs *)

Some(v) == [some |-> TRUE, val |-> v]

None == [some |-> FALSE]

MemoSize == 512

MemoHeadLen == 40

\* Vec::resize(new_len, value)
resize(v, new_len, value) ==
    IF Len(v) >= new_len THEN SubSeq(v, 1, new_len)
    ELSE v \o Rep(new_len - Len(v), value)

\* create_timestamp_memo without the padding
create_timestamp_memo_unpadded(hash) == ZOTS_MAGIC \o hash

\* create_timestamp_memo with the hash put in front of the magic
create_timestamp_memo_hash_first(hash) == resize(hash \o ZOTS_MAGIC, MemoSize, 0)

\* create_timestamp_memo
create_timestamp_memo(hash) == resize(ZOTS_MAGIC \o hash, MemoSize, 0)

\* parse_timestamp_memo comparing only the four bytes "zOTS" of the magic
parse_timestamp_memo_fuzzy(m) ==
    IF Len(m) < MemoHeadLen THEN None
    ELSE IF SubSeq(m, 2, 5) # SubSeq(ZOTS_MAGIC, 2, 5) THEN None
    ELSE Some([i \in 1..HashLen |-> m[8 + i]])

\* parse_timestamp_memo
parse_timestamp_memo(m) ==
    IF Len(m) < MemoHeadLen THEN None
    ELSE IF SubSeq(m, 1, 8) # ZOTS_MAGIC THEN None
    ELSE Some([i \in 1..HashLen |-> m[8 + i]])

-----------------------------------------------------------------------------
(* zots-core/src/hash.rs; text is a sequence of character codes *)

HashAlgorithms == {"Sha256", "Blake3"}

Io(msg) == [ok |-> FALSE, kind |-> "Io", msg |-> msg, arg |-> 0]

InvalidHash(msg, arg) == [ok |-> FALSE, kind |-> "InvalidHash", msg |-> msg, arg |-> arg]

\* HashAlgorithm::hash_bytes.  SHA-256 and BLAKE3 come from the crates sha2
\* and blake3; this stand-in keeps what the callers rely on: one 32-byte
\* value per algorithm and input, different for the two algorithms.
hash_bytes_with(d, algorithm) ==
    LET salt == IF algorithm = "Sha256" THEN 83 ELSE 177
        n == Len(d)
    IN  [i \in 1..HashLen |->
            (salt + 17 * i + n
                + (IF n = 0 THEN 0
                   ELSE 3 * d[((i - 1) % n) + 1] + d[((7 * i) % n) + 1])) % 256]

IsWhitespace(c) == c \in {9, 10, 11, 12, 13, 32}

\* str::trim
trim(t) ==
    LET keep == { i \in 1..Len(t) : ~ IsWhitespace(t[i]) }
    IN  IF keep = {} THEN << >>
        ELSE SubSeq(t, CHOOSE i \in keep : \A j \in keep : i <= j,
                       CHOOSE i \in keep : \A j \in keep : i >= j)

\* str::trim_start_matches("0x"): every leading repetition of "0x" goes
trim_start_matches_0x(t) ==
    LET k == Cardinality({ j \in 1..(Len(t) \div 2) :
                \A i \in 1..j : t[2 * i - 1] = 48 /\ t[2 * i] = 120 })
    IN  SubSeq(t, 2 * k + 1, Len(t))

IsHexChar(c) == c \in (48..57) \cup (97..102) \cup (65..70)

HexVal(c) == IF c \in 48..57 THEN c - 48 ELSE IF c \in 97..102 THEN c - 87 ELSE c - 55

HexChar(v) == IF v < 10 THEN 48 + v ELSE 87 + v

\* hex::decode
hex_decode(t) ==
    IF Len(t) % 2 # 0 THEN [ok |-> FALSE, kind |-> "OddLength", msg |-> "", arg |-> 0]
    ELSE IF \E i \in 1..Len(t) : ~ IsHexChar(t[i])
         THEN [ok |-> FALSE, kind |-> "InvalidHexCharacter", msg |-> "", arg |-> 0]
    ELSE Ok([i \in 1..(Len(t) \div 2) |-> 16 * HexVal(t[2 * i - 1]) + HexVal(t[2 * i])])

\* hex::encode
hex_encode(b) ==
    [k \in 1..(2 * Len(b)) |->
        IF k % 2 = 1 THEN HexChar(b[(k + 1) \div 2] \div 16)
        ELSE HexChar(b[k \div 2] % 16)]

\* hash_to_hex
hash_to_hex(hash) == hex_encode(hash)

\* hash_from_hex_with that hashes whatever it decodes
hash_from_hex_with_rehash(hex_str, algorithm) ==
    LET cleaned == trim_start_matches_0x(trim(hex_str))
    IN  IF Len(cleaned) = 40 \/ Len(cleaned) = 64
        THEN LET bytes == hex_decode(cleaned)
             IN  IF ~ bytes.ok THEN InvalidHash("Invalid hex", 0)
                 ELSE Ok(hash_bytes_with(bytes.val, algorithm))
        ELSE InvalidHash("Expected 40 or 64 hex chars, got", Len(cleaned))

\* hash_from_hex_with that answers text it cannot decode with zeros
hash_from_hex_with_zero_fallback(hex_str, algorithm) ==
    LET cleaned == trim_start_matches_0x(trim(hex_str))
    IN  IF Len(cleaned) = 40
        THEN LET bytes == hex_decode(cleaned)
             IN  IF ~ bytes.ok THEN Ok(Rep(HashLen, 0))
                 ELSE Ok(hash_bytes_with(bytes.val, algorithm))
        ELSE IF Len(cleaned) = 64
        THEN LET bytes == hex_decode(cleaned)
             IN  IF ~ bytes.ok THEN Ok(Rep(HashLen, 0))
                 ELSE Ok(bytes.val)
        ELSE InvalidHash("Expected 40 or 64 hex chars, got", Len(cleaned))

\* hash_from_hex_with
hash_from_hex_with(hex_str, algorithm) ==
    LET cleaned == trim_start_matches_0x(trim(hex_str))
    IN  IF Len(cleaned) = 40
        THEN LET bytes == hex_decode(cleaned)
             IN  IF ~ bytes.ok THEN InvalidHash("Invalid hex", 0)
                 ELSE Ok(hash_bytes_with(bytes.val, algorithm))
        ELSE IF Len(cleaned) = 64
        THEN LET bytes == hex_decode(cleaned)
             IN  IF ~ bytes.ok THEN InvalidHash("Invalid hex", 0)
                 ELSE Ok(bytes.val)
        ELSE InvalidHash("Expected 40 or 64 hex chars, got", Len(cleaned))

\* the files of the scenario: "doc" and "other" can be read, "locked" exists
\* and cannot be opened
DocPath == << 100, 111, 99 >>

OtherPath == << 111, 116, 104, 101, 114 >>

LockedPath == << 108, 111, 99, 107, 101, 100 >>

\* b"hello world"
DocContent == << 104, 101, 108, 108, 111, 32, 119, 111, 114, 108, 100 >>

OtherContent == << 122, 111, 116, 115 >>

\* Path::exists
path_exists(path) == path \in {DocPath, OtherPath, LockedPath}

\* hash_file_with: File::open, then the chunks go through the hasher
hash_file_with(path, algorithm) ==
    IF path = DocPath THEN Ok(hash_bytes_with(DocContent, algorithm))
    ELSE IF path = OtherPath THEN Ok(hash_bytes_with(OtherContent, algorithm))
    ELSE Io("cannot open file")

-----------------------------------------------------------------------------
(* Inputs *)

\* the hashes of the tests of proof.rs and memo.rs
Hashes == { Rep(HashLen, 66), Rep(HashLen, 171), Rep(HashLen, 0),
            [i \in 1..HashLen |-> i] }

\* the attestations of the tests of proof.rs, and one at the upper ends
Atts == {
    ZcashAttestation("Testnet", Rep(32, 205), 3721456, 1734567890, 8),
    ZcashAttestation("Testnet", Rep(32, 1), 100, 1000, 0),
    ZcashAttestation("Mainnet", Rep(32, 2), 200, 2000, 0),
    ZcashAttestation("Mainnet", [i \in 1..32 |-> 256 - i], 2147483647, 0, 65535) }

NoAtt == ZcashAttestation("none", << >>, 0, 0, 0)

-----------------------------------------------------------------------------
(* The wallet collaborator, as the verification flows use it *)

\* what ZotsWallet::verify_timestamp_tx returns on success
VerificationResult(valid, memo_hash, error) ==
    [valid |-> valid, memo_hash |-> memo_hash, error |-> error]

NotFound == [found |-> FALSE, memos |-> {}]

Found(memos) == [found |-> TRUE, memos |-> memos]

\* ZotsWallet::verify_timestamp_tx: fetch the transaction, decrypt its memos,
\* parse each and look for the expected hash
verify_timestamp_tx(ch, txid, expected_hash, block_height) ==
    IF ~ ch[txid].found
    THEN VerificationResult(FALSE, None, "Transaction not found")
    ELSE IF \E m \in ch[txid].memos : parse_timestamp_memo(m) = Some(expected_hash)
    THEN VerificationResult(TRUE, Some(expected_hash), "")
    ELSE VerificationResult(FALSE, None, "Memo hash does not match")

NetworkError == [ok |-> FALSE, kind |-> "Network", msg |-> "lightwalletd unreachable", arg |-> 0]

-----------------------------------------------------------------------------
(* The proof a verification flow loads, and what a flow reports *)

\* the record TimestampProof::load gives the flows: the proof with its
\* recorded hash algorithm
LoadedProof(hash_algorithm, hash, attestations) ==
    [version |-> PROOF_VERSION, hash_algorithm |-> hash_algorithm, hash |-> hash,
     attestations |-> attestations]

\* TimestampProof::load: read the file, then deserialize
load(file) ==
    IF file.state = "missing" THEN Io("No such file or directory")
    ELSE IF file.state = "corrupt" THEN InvalidProof("malformed proof", 0)
    ELSE Ok(file.proof)

\* what can be at the proof path: nothing, something that is no proof, a proof
FileMissing == [state |-> "missing", proof |-> LoadedProof("Sha256", << >>, << >>)]

FileCorrupt == [state |-> "corrupt", proof |-> LoadedProof("Sha256", << >>, << >>)]

FileWith(p) == [state |-> "proof", proof |-> p]

\* VerifyResult, for the CLI the verdict it prints
VerifyResult(valid, prefix, error, att, fhm) ==
    [isErr |-> FALSE, valid |-> valid, prefix |-> prefix, error |-> error,
     att |-> att, file_hash_matches |-> fhm]

\* an Err / VerifyFailed / error message
Failed(prefix, error) ==
    [isErr |-> TRUE, valid |-> FALSE, prefix |-> prefix, error |-> error,
     att |-> NoAtt, file_hash_matches |-> "none"]

NoOutcome == Failed("", "not finished")

Finish(r) == [go |-> "finish", r |-> r, fhm |-> r.file_hash_matches]

ToWallet(fhm) == [go |-> "wallet", r |-> NoOutcome, fhm |-> fhm]

\* the attestation checked, taken from the end of the list instead
last_attestation(p) == p.attestations[Len(p.attestations)]

\* let att = &proof.attestations[0]
first_attestation(p) == p.attestations[1]

\* TimestampProof::hash_bytes: the recorded hash as 32 bytes
hash_bytes(p) ==
    IF Len(p.hash) = HashLen THEN Ok(p.hash)
    ELSE InvalidHash("Invalid hash length", Len(p.hash))

\* ZcashAttestation::txid_bytes: the recorded transaction id as 32 bytes
txid_bytes(att) ==
    IF Len(att.txid) = HashLen THEN Ok(att.txid)
    ELSE InvalidProof("Invalid txid length", Len(att.txid))

-----------------------------------------------------------------------------
(* zots-cli/src/commands/verify.rs *)

\* commands/verify.rs run, hashing the supplied file with the default algorithm
\* instead of the one recorded in the proof
cli_run_local_default_algorithm(pfile, file, cfg) ==
    LET loaded == load(pfile)
    IN  IF ~ loaded.ok THEN Finish(Failed("", loaded.msg))
        ELSE
        LET p == loaded.val
            proof_hash_bytes == hash_bytes(p)
            algorithm == "Sha256"
            file_hash == hash_file_with(file, algorithm)
            rest(fhm) ==
                IF p.attestations = << >>
                THEN Finish(VerifyResult(FALSE, "print_warning",
                        "No attestations found - proof is pending confirmation",
                        NoAtt, fhm))
                ELSE IF ~ cfg
                THEN Finish(Failed("", "ZOTS_SEED environment variable not set"))
                ELSE ToWallet(fhm)
        IN  IF ~ proof_hash_bytes.ok THEN Finish(Failed("", proof_hash_bytes.msg))
            ELSE IF file # << >>
            THEN IF ~ file_hash.ok THEN Finish(Failed("", file_hash.msg))
                 ELSE IF file_hash.val = proof_hash_bytes.val THEN rest("true")
                 ELSE Finish(VerifyResult(FALSE, "print_error",
                        "Hash does NOT match original file!", NoAtt, "false"))
            ELSE rest("none")

\* run, down to ZcashConfig::from_env; what run prints is the result, and
\* `prefix` holds the output function that prints it
cli_run_local(pfile, file, cfg) ==
    LET loaded == load(pfile)
    IN  IF ~ loaded.ok THEN Finish(Failed("", loaded.msg))
        ELSE
        LET p == loaded.val
            proof_hash_bytes == hash_bytes(p)
            algorithm == p.hash_algorithm
            file_hash == hash_file_with(file, algorithm)
            rest(fhm) ==
                IF p.attestations = << >>
                THEN Finish(VerifyResult(FALSE, "print_warning",
                        "No attestations found - proof is pending confirmation",
                        NoAtt, fhm))
                ELSE IF ~ cfg
                THEN Finish(Failed("", "ZOTS_SEED environment variable not set"))
                ELSE ToWallet(fhm)
        IN  IF ~ proof_hash_bytes.ok THEN Finish(Failed("", proof_hash_bytes.msg))
            ELSE IF file # << >>
            THEN IF ~ file_hash.ok THEN Finish(Failed("", file_hash.msg))
                 ELSE IF file_hash.val = proof_hash_bytes.val THEN rest("true")
                 ELSE Finish(VerifyResult(FALSE, "print_error",
                        "Hash does NOT match original file!", NoAtt, "false"))
            ELSE rest("none")

\* run, from the verify_timestamp_tx result to the verdict
cli_verdict(result, att, fhm) ==
    IF ~ result.ok THEN Failed("", result.msg)
    ELSE IF result.val.valid THEN VerifyResult(TRUE, "print_success", "", att, fhm)
    ELSE VerifyResult(FALSE, "print_error", result.val.error, att, fhm)

-----------------------------------------------------------------------------
(* zots-cli/src/tui/app.rs *)

\* App::process_verify, step FileOrHash
tui_file_or_hash(input_buffer) ==
    LET input == trim(input_buffer)
    IN  IF input = << >>
        THEN [kind |-> "None", r |-> Failed("", "Please enter a file path or hash to verify")]
        ELSE IF path_exists(input) THEN [kind |-> "File", r |-> NoOutcome]
        ELSE IF Len(input) >= 40
        THEN IF hash_from_hex_with(input, "Sha256").ok
             THEN [kind |-> "Hash", r |-> NoOutcome]
             ELSE [kind |-> "None", r |-> Failed("Invalid hash",
                        hash_from_hex_with(input, "Sha256").msg)]
        ELSE [kind |-> "None",
              r |-> Failed("", "File not found and input is not a valid hash")]

\* App::process_verify, step ProofPath, with the attestation check moved in
\* front of the hash comparison
tui_proof_path_pending_first(pfile, kind, verify_file_input, cfg) ==
    LET loaded == load(pfile)
    IN  IF ~ loaded.ok THEN Finish(Failed("Load error", loaded.msg))
        ELSE
        LET p == loaded.val
            proof_hash_bytes == hash_bytes(p)
            proof_algorithm == p.hash_algorithm
            recomputed_hash ==
                IF kind = "File" THEN hash_file_with(verify_file_input, proof_algorithm)
                ELSE IF kind = "Hash"
                     THEN hash_from_hex_with(verify_file_input, proof_algorithm)
                ELSE proof_hash_bytes
        IN  IF ~ proof_hash_bytes.ok
            THEN Finish(Failed("Invalid proof hash", proof_hash_bytes.msg))
            ELSE IF ~ recomputed_hash.ok
            THEN Finish(Failed("Hash error", recomputed_hash.msg))
            ELSE
            LET fhm == IF recomputed_hash.val = proof_hash_bytes.val
                       THEN "true" ELSE "false"
            IN  IF p.attestations = << >>
                THEN Finish(VerifyResult(FALSE, "",
                        "Proof is pending (no attestations yet)", NoAtt, fhm))
                ELSE IF fhm = "false"
                THEN Finish(VerifyResult(FALSE, "",
                        "Hash does NOT match the provided file/hash!", NoAtt, "false"))
                ELSE IF ~ cfg
                THEN Finish(VerifyResult(TRUE, "",
                        "Cannot verify on-chain (no wallet configured)",
                        first_attestation(p), fhm))
                ELSE IF ~ txid_bytes(first_attestation(p)).ok
                THEN Finish(Failed("Invalid TXID", txid_bytes(first_attestation(p)).msg))
                ELSE ToWallet(fhm)

\* App::process_verify, step ProofPath, down to the spawn of run_verify_task
tui_proof_path(pfile, kind, verify_file_input, cfg) ==
    LET loaded == load(pfile)
    IN  IF ~ loaded.ok THEN Finish(Failed("Load error", loaded.msg))
        ELSE
        LET p == loaded.val
            proof_hash_bytes == hash_bytes(p)
            proof_algorithm == p.hash_algorithm
            recomputed_hash ==
                IF kind = "File" THEN hash_file_with(verify_file_input, proof_algorithm)
                ELSE IF kind = "Hash"
                     THEN hash_from_hex_with(verify_file_input, proof_algorithm)
                ELSE proof_hash_bytes
        IN  IF ~ proof_hash_bytes.ok
            THEN Finish(Failed("Invalid proof hash", proof_hash_bytes.msg))
            ELSE IF ~ recomputed_hash.ok
            THEN Finish(Failed("Hash error", recomputed_hash.msg))
            ELSE
            LET fhm == IF recomputed_hash.val = proof_hash_bytes.val
                       THEN "true" ELSE "false"
            IN  IF fhm = "false"
                THEN Finish(VerifyResult(FALSE, "",
                        "Hash does NOT match the provided file/hash!", NoAtt, "false"))
                ELSE IF p.attestations = << >>
                THEN Finish(VerifyResult(FALSE, "",
                        "Proof is pending (no attestations yet)", NoAtt, fhm))
                ELSE IF ~ cfg
                THEN Finish(VerifyResult(TRUE, "",
                        "Cannot verify on-chain (no wallet configured)",
                        first_attestation(p), fhm))
                ELSE IF ~ txid_bytes(first_attestation(p)).ok
                THEN Finish(Failed("Invalid TXID", txid_bytes(first_attestation(p)).msg))
                ELSE ToWallet(fhm)

\* tui/ui.rs, VerifyStep::Results: the heading over a result
tui_heading(r) == IF r.valid THEN "VALID TIMESTAMP" ELSE "VERIFICATION FAILED"

\* run_verify_task that sends one reason for every refusal
tui_verdict_generic(result, att, fhm) ==
    IF ~ result.ok THEN VerifyResult(FALSE, "Verification error", result.msg, att, fhm)
    ELSE VerifyResult(result.val.valid, "",
                      IF result.val.valid THEN "" ELSE "Verification failed", att, fhm)

\* run_verify_task, from the verify_timestamp_tx result to the message sent
tui_verdict(result, att, fhm) ==
    IF ~ result.ok THEN VerifyResult(FALSE, "Verification error", result.msg, att, fhm)
    ELSE VerifyResult(result.val.valid, "", result.val.error, att, fhm)

-----------------------------------------------------------------------------
(* zots-desktop/src/app.rs *)

\* run_verify, down to the wallet branch
desktop_run_verify_local(cfg, file_input, pfile) ==
    LET loaded == load(pfile)
    IN  IF ~ loaded.ok THEN Finish(Failed("", loaded.msg))
        ELSE
        LET p == loaded.val
            proof_hash_bytes == hash_bytes(p)
            algorithm == p.hash_algorithm
            recomputed ==
                IF path_exists(file_input) THEN hash_file_with(file_input, algorithm)
                ELSE hash_from_hex_with(file_input, algorithm)
            rest(fhm) ==
                IF p.attestations = << >>
                THEN Finish(VerifyResult(FALSE, "",
                        "Proof is pending (no attestations)", NoAtt, fhm))
                ELSE IF cfg THEN ToWallet(fhm)
                ELSE Finish(VerifyResult(TRUE, "",
                        "Cannot verify on-chain (no wallet)", first_attestation(p), fhm))
        IN  IF ~ proof_hash_bytes.ok THEN Finish(Failed("", proof_hash_bytes.msg))
            ELSE IF file_input # << >>
            THEN IF ~ recomputed.ok THEN Finish(Failed("", recomputed.msg))
                 ELSE IF recomputed.val = proof_hash_bytes.val THEN rest("true")
                 ELSE Finish(VerifyResult(FALSE, "",
                        "Hash does NOT match the provided file/hash!", NoAtt, "false"))
            ELSE rest("none")

\* views/verify.rs: the heading over a result
desktop_heading(r) == IF r.valid THEN "Proof Valid!" ELSE "Verification Failed"

\* run_verify, from the verify_timestamp_tx result to the value returned
desktop_verdict(result, att, fhm) ==
    IF ~ result.ok THEN Failed("", result.msg)
    ELSE VerifyResult(result.val.valid, "", result.val.error, att, fhm)

-----------------------------------------------------------------------------
(* The parts of the state a scenario leaves out stay at these values *)

NotParsed == [some |-> FALSE, pending |-> TRUE]

\* TimestampProof::new_with_algorithm
new_with_algorithm(hash, algorithm) == LoadedProof(algorithm, hash, << >>)

\* what a stamp flow ends with
StampEnd(state, prefix, error, result) ==
    [state |-> state, prefix |-> prefix, error |-> error, result |-> result]

NoStampResult == [hash |-> << >>, txid |-> << >>, block_height |-> 0, block_time |-> 0,
                  output_path |-> << >>]

NotStamped == StampEnd("none", "", NoResult, NoStampResult)

NoText == [some |-> FALSE, val |-> << >>]

NotHashed == [hash |-> Rep(HashLen, 0), output_path |-> << >>]

NoArgs ==
    [file |-> NoText, hash |-> NoText, output |-> NoText, input |-> << >>,
     no_wait |-> FALSE, hash_algorithm |-> "Sha256", config |-> None]

\* the chain has not included the transaction in a block
NotMined == [mined |-> FALSE, height |-> 0, time |-> 0]

\* the transaction is in the block at this height, with this block time
Mined(height, time) == [mined |-> TRUE, height |-> height, time |-> time]

NoPoll == [synced |-> NoResult, current_height |-> NoResult]

\* no tui App has been created
IdleTui ==
    /\ tapp = [state |-> "none", config |-> FALSE, input_buffer |-> << >>,
               operation_phase |-> "Input", verify_step |-> "FileOrHash",
               task_running |-> FALSE, qr_data |-> FALSE]
    /\ tasks = << >>
    /\ task_rx = << >>

\* no desktop ZotsApp has been created
IdleDesk ==
    /\ zapp = [current_view |-> "none", config |-> FALSE, stamp_input |-> << >>,
               stamp_phase |-> "Idle", stamp_result |-> FALSE, stamp_error |-> FALSE]
    /\ ztasks = << >>

IdleStamp ==
    /\ sFe = "none"
    /\ sArgs = NoArgs
    /\ sHash = NotHashed
    /\ sCalls = << >>
    /\ sTx = NoResult
    /\ sStart = 0
    /\ sRound = 0
    /\ sConf = NoResult
    /\ sProof = new_with_algorithm(Rep(HashLen, 0), "Sha256")
    /\ sSaved = FileMissing
    /\ sChan = << >>
    /\ sPhase = "Input"
    /\ sRunning = FALSE
    /\ sOutcome = NotStamped
    /\ sBlock = NotMined
    /\ sPoll = NoPoll
    /\ sSaves = << >>


IdleCore ==
    /\ proof = new(Rep(HashLen, 0))
    /\ newHash = Rep(HashLen, 0)
    /\ added = 0
    /\ lastAtt = NoAtt
    /\ buf = << >>
    /\ data = << >>
    /\ dres = NoResult

IdleMemo ==
    /\ memoHash = Rep(HashLen, 0)
    /\ memo = << >>
    /\ memoSrc = "none"
    /\ parsed = NotParsed

IdleVerify ==
    /\ fe = "none"
    /\ proofFile = FileMissing
    /\ supplied = << >>
    /\ config = FALSE
    /\ chain = << >>
    /\ walletCalls = << >>
    /\ walletResult = NoResult
    /\ taskMsg = NoOutcome
    /\ outcome = NoOutcome
    /\ verify_step = "FileOrHash"
    /\ verify_input_kind = "None"
    /\ operation_phase = "Input"
    /\ task_running = FALSE
    /\ verifying = FALSE
    /\ file_hash_matches = "none"

IdleCompact ==
    /\ cproof = LoadedProof("Sha256", << >>, << >>)
    /\ ctext = << >>
    /\ csrc = "none"
    /\ cfmt = FALSE
    /\ cres = NoResult

IdleTxid ==
    /\ tIn = [form |-> "none", bytes |-> << >>, text |-> << >>]
    /\ tAtt = NoResult
    /\ tBytes = NoResult
    /\ tHex = << >>

IdleHex ==
    /\ hIn = << >>
    /\ hAlg = "Sha256"
    /\ hRes = NoResult
    /\ hOut = << >>

-----------------------------------------------------------------------------
(* SpecProof: the life of one TimestampProof value *)

InitProof ==
    /\ pc = "new"
    /\ newHash \in Hashes
    /\ proof = new(newHash)
    /\ added = 0
    /\ lastAtt = NoAtt
    /\ buf = << >>
    /\ data = << >>
    /\ dres = NoResult
    /\ IdleMemo
    /\ IdleVerify
    /\ IdleCompact
    /\ IdleTxid
    /\ IdleHex
    /\ IdleStamp
    /\ IdleTui
    /\ IdleDesk

\* proof.add_attestation(att)
AddAttestation ==
    /\ added < MaxAtts
    /\ \E att \in Atts :
        /\ proof' = add_attestation(proof, att)
        /\ lastAtt' = att
    /\ added' = added + 1
    /\ pc' = "add_attestation"
    /\ UNCHANGED <<newHash, buf, data, dres, nonCore>>

\* proof.save(path): serialize(&self) and write
Save ==
    /\ buf' = serialize(proof)
    /\ buf' # buf
    /\ pc' = "save"
    /\ UNCHANGED <<proof, newHash, added, lastAtt, data, dres, nonCore>>

NextProof == AddAttestation \/ Save

SpecProof == InitProof /\ [][NextProof]_vars

\* C9: a proof made by new(h) has version PROOF_VERSION, hash h, no
\* attestations and is not confirmed; after any sequence of add_attestation
\* calls is_confirmed() holds exactly when at least one call was made.
C9_ConfirmedIffAdded ==
    /\ is_confirmed(proof) <=> (added > 0)
    /\ is_confirmed(proof) <=> (Len(proof.attestations) # 0)
    /\ added = 0 =>
        /\ proof.version = PROOF_VERSION
        /\ proof.hash = newHash
        /\ proof.attestations = << >>
        /\ ~ is_confirmed(proof)

\* a proof that went through several add_attestation calls and is confirmed
C9_Witness == added >= 2 /\ pc = "add_attestation" /\ is_confirmed(proof)

\* C10: add_attestation appends its argument as the new last element, whatever
\* the argument is, and leaves the elements already stored, the version and
\* the hash as they were; no other operation changes the proof.
C10_AppendOnly ==
    [][ /\ (added' = added + 1) =>
            /\ proof'.attestations = Append(proof.attestations, lastAtt')
            /\ proof'.version = proof.version
            /\ proof'.hash = proof.hash
        /\ (added' = added) => (proof' = proof) ]_vars

\* an attestation equal to one already stored was appended all the same
C10_Witness ==
    /\ pc = "add_attestation"
    /\ Len(proof.attestations) >= 2
    /\ proof.attestations[Len(proof.attestations)] = lastAtt
    /\ \E i \in 1..(Len(proof.attestations) - 1) : proof.attestations[i] = lastAtt

-----------------------------------------------------------------------------
(* SpecCodec: serialize, then deserialize the bytes, intact or damaged *)

\* the proof new(hash) has become after add_attestation of each element of
\* atts in turn
proof_with(hash, atts) == [new(hash) EXCEPT !.attestations = atts]

\* attestation lists of up to MaxAtts freely chosen elements
ShortAttLists == UNION { [1..n -> Atts] : n \in 0..MaxAtts }

\* attestation lists whose length is at the limit of the one-byte count field
LongAttLists == { Rep(n, a) : n \in {U8Mod - 1, U8Mod, U8Mod + 1}, a \in Atts }

CodecHashes == { Rep(HashLen, 171), [i \in 1..HashLen |-> i] }

CodecProofs ==
    { proof_with(h, l) : h \in CodecHashes, l \in ShortAttLists }
        \cup { proof_with(Rep(HashLen, 171), l) : l \in LongAttLists }

InitCodec ==
    /\ pc = "start"
    /\ proof \in CodecProofs
    /\ newHash = proof.hash
    /\ added = Len(proof.attestations)
    /\ lastAtt = NoAtt
    /\ buf = << >>
    /\ data = << >>
    /\ dres = NoResult
    /\ IdleMemo
    /\ IdleVerify
    /\ IdleCompact
    /\ IdleTxid
    /\ IdleHex
    /\ IdleStamp
    /\ IdleTui
    /\ IdleDesk

\* let bytes = proof.serialize()
Serialize ==
    /\ pc = "start"
    /\ buf' = serialize(proof)
    /\ data' = buf'
    /\ pc' = "serialized"
    /\ UNCHANGED <<proof, newHash, added, lastAtt, dres, nonCore>>

\* lengths at which a stored proof is cut short
TruncLens == {0, 3, 7, 8, 9, 10, 41, 42, 43, 44, 86, 87, 100}

\* the stored bytes are cut short
Truncate ==
    /\ pc = "serialized"
    /\ \E k \in TruncLens :
        /\ k < Len(data)
        /\ data' = SubSeq(data, 1, k)
    /\ pc' = "damaged"
    /\ UNCHANGED <<proof, newHash, added, lastAtt, buf, dres, nonCore>>

\* positions of the magic, version, hash type, count, and of the type and network
\* of the first and the second attestation
DamagePositions == {1, 8, 9, 10, 43, 44, 45, 88, 89}

DamageValues == {0, 1, 2, 255}

\* one stored byte is overwritten
Overwrite ==
    /\ pc = "serialized"
    /\ \E pos \in DamagePositions, v \in DamageValues :
        /\ pos <= Len(data)
        /\ data[pos] # v
        /\ data' = [data EXCEPT ![pos] = v]
    /\ pc' = "damaged"
    /\ UNCHANGED <<proof, newHash, added, lastAtt, buf, dres, nonCore>>

\* TimestampProof::deserialize(&data)
Deserialize ==
    /\ pc \in {"serialized", "damaged"}
    /\ dres' = deserialize(data)
    /\ pc' = "deserialized"
    /\ UNCHANGED <<proof, newHash, added, lastAtt, buf, data, nonCore>>

NextCodec == Serialize \/ Truncate \/ Overwrite \/ Deserialize

SpecCodec == InitCodec /\ [][NextCodec]_vars

\* C3: deserialize(serialize(p)) is a proof equal to p in version, hash and
\* the whole ordered attestation list, for every proof p.
C3_RoundTrip ==
    (pc = "deserialized" /\ data = buf) =>
        /\ dres.ok
        /\ dres.val.version = proof.version
        /\ dres.val.hash = proof.hash
        /\ dres.val.attestations = proof.attestations

\* the round trip of the proofs whose attestation count fits the count byte
RoundTripBelowWrap ==
    (pc = "deserialized" /\ data = buf /\ Len(proof.attestations) < U8Mod) =>
        (dres.ok /\ dres.val = proof)

\* C8: a record whose version byte is not PROOF_VERSION is refused with
\* InvalidProof naming that version, and every proof deserialize returns has
\* version PROOF_VERSION.
C8_VersionPinned ==
    pc = "deserialized" =>
        /\ (Len(data) >= 9 /\ (\A i \in 1..8 : data[i] = ZOTS_MAGIC[i])
                /\ data[9] # PROOF_VERSION)
            => dres = InvalidProof("Unsupported version", data[9])
        /\ dres.ok => dres.val.version = PROOF_VERSION

\* a record with version 2 and an intact magic header was refused
C8_Witness ==
    /\ pc = "deserialized"
    /\ Len(data) > 43
    /\ SubSeq(data, 1, 8) = ZOTS_MAGIC
    /\ data[9] = 2
    /\ ~ dres.ok

-----------------------------------------------------------------------------
(* SpecMemo: a memo is created or received, and parsed *)

InitMemo ==
    /\ pc = "start"
    /\ memoHash \in Hashes
    /\ memo = << >>
    /\ memoSrc = "none"
    /\ parsed = NotParsed
    /\ IdleCore
    /\ IdleVerify
    /\ IdleCompact
    /\ IdleTxid
    /\ IdleHex
    /\ IdleStamp
    /\ IdleTui
    /\ IdleDesk

\* let memo = create_timestamp_memo(&hash)
CreateMemo ==
    /\ pc = "start"
    /\ memo' = create_timestamp_memo(memoHash)
    /\ memoSrc' = "created"
    /\ pc' = "have_memo"
    /\ UNCHANGED <<memoHash, parsed, nonMemo>>

\* lengths a received memo is cut to
MemoCuts == {0, 7, 8, 20, 39, 40, 41, 511}

\* a created memo reaches the parser cut short
CutMemo ==
    /\ pc = "have_memo"
    /\ memoSrc = "created"
    /\ \E k \in MemoCuts : memo' = SubSeq(memo, 1, k)
    /\ memoSrc' = "cut"
    /\ UNCHANGED <<pc, memoHash, parsed, nonMemo>>

\* positions in the magic, at the ends of the hash and in the padding
MemoPositions == (1..8) \cup {9, 40, 41, 512}

\* a created memo reaches the parser with one byte changed
ChangeMemo ==
    /\ pc = "have_memo"
    /\ memoSrc = "created"
    /\ \E pos \in MemoPositions, v \in {0, 1, 122, 255} :
        /\ memo[pos] # v
        /\ memo' = [memo EXCEPT ![pos] = v]
    /\ memoSrc' = "changed"
    /\ UNCHANGED <<pc, memoHash, parsed, nonMemo>>

\* memos of other senders: empty, all zero, the empty-memo marker, text, a
\* bare magic, a magic with a short hash
ForeignMemos == {
    << >>,
    Rep(MemoSize, 0),
    << 246 >> \o Rep(MemoSize - 1, 0),
    Rep(20, 0),
    << 122, 79, 84, 83 >> \o Rep(MemoSize - 4, 0),
    ZOTS_MAGIC,
    ZOTS_MAGIC \o Rep(31, 7) }

\* the memo of a transaction somebody else made
ReceiveMemo ==
    /\ pc = "start"
    /\ memo' \in ForeignMemos
    /\ memoSrc' = "foreign"
    /\ pc' = "have_memo"
    /\ UNCHANGED <<memoHash, parsed, nonMemo>>

\* let parsed = parse_timestamp_memo(&memo)
ParseMemo ==
    /\ pc = "have_memo"
    /\ parsed' = parse_timestamp_memo(memo)
    /\ pc' = "parsed"
    /\ UNCHANGED <<memoHash, memo, memoSrc, nonMemo>>

NextMemo == CreateMemo \/ CutMemo \/ ChangeMemo \/ ReceiveMemo \/ ParseMemo

SpecMemo == InitMemo /\ [][NextMemo]_vars

\* C5: parsing the memo created for a hash h gives back Some(h).
C5_MemoRoundTrip ==
    (pc = "parsed" /\ memoSrc = "created") => parsed = Some(memoHash)

\* a created memo was parsed, untouched
C5_Witness == pc = "parsed" /\ memoSrc = "created" /\ parsed.some

\* C6: the memo created for h is 512 bytes long: the magic that also starts
\* a serialized proof, then h, then zeros.
C6_MemoLayout ==
    memoSrc = "created" =>
        /\ Len(memo) = 512
        /\ \A i \in 1..8 : memo[i] = ZOTS_MAGIC[i]
        /\ \A i \in 1..8 : memo[i] = serialize(new(memoHash))[i]
        /\ \A i \in 9..40 : memo[i] = memoHash[i - 8]
        /\ \A i \in 41..512 : memo[i] = 0

\* a memo was created
C6_Witness == memoSrc = "created" /\ pc = "have_memo" /\ memo # << >>

\* C7: parse_timestamp_memo gives None for every input shorter than 40 bytes
\* and for every input whose first 8 bytes are not the magic, one differing
\* byte being enough; for every other input it gives bytes 8..40.
C7_ParseTotal ==
    pc = "parsed" =>
        IF Len(memo) < 40 \/ (\E i \in 1..8 : memo[i] # ZOTS_MAGIC[i])
        THEN parsed = None
        ELSE parsed = Some(SubSeq(memo, 9, 40))

\* a full-size memo with one byte of the magic changed and the rest of it
\* intact was refused
C7_Witness ==
    /\ pc = "parsed"
    /\ Len(memo) = 512
    /\ Cardinality({ i \in 1..8 : memo[i] # ZOTS_MAGIC[i] }) = 1
    /\ memo[1] = ZOTS_MAGIC[1]
    /\ memo[8] = ZOTS_MAGIC[8]
    /\ parsed = None

-----------------------------------------------------------------------------
(* SpecVerify: one verification, through the command line, the terminal UI
   or the desktop application *)

FrontEnds == {"cli", "tui", "desktop"}

VerifyAtt1 == ZcashAttestation("Testnet", Rep(HashLen, 1), 100, 1000, 0)

VerifyAtt2 == ZcashAttestation("Mainnet", Rep(HashLen, 2), 200, 2000, 0)

\* an attestation whose recorded transaction id does not decode to 32 bytes
BadTxidAtt == ZcashAttestation("Testnet", Rep(HashLen - 1, 3), 300, 3000, 0)

VerifyAttLists == { << >>, <<VerifyAtt1>>, <<VerifyAtt1, VerifyAtt2>>,
                    <<VerifyAtt2, VerifyAtt1>>, <<BadTxidAtt>> }

DocHash(algorithm) == hash_bytes_with(DocContent, algorithm)

ProofFiles ==
    { FileMissing, FileCorrupt }
    \cup { FileWith(LoadedProof(a, DocHash(a), atts)) :
                a \in HashAlgorithms, atts \in VerifyAttLists }
    \cup { FileWith(LoadedProof("Sha256", Rep(HashLen - 1, 7), <<VerifyAtt1>>)) }

Spaces == << 32, 32 >>

\* what the user can type or pass as the original: nothing, a path, a hash
\* in hex, a 40-character hex text, or something that is neither
SuppliedTexts ==
    { << >>, DocPath, OtherPath, LockedPath, Spaces \o DocPath \o Spaces,
      hash_to_hex(DocHash("Sha256")), hash_to_hex(DocHash("Blake3")),
      hash_to_hex(Rep(20, 171)), Rep(64, 122), << 97, 98, 99 >> }

VerifyTxids == { VerifyAtt1.txid, VerifyAtt2.txid, BadTxidAtt.txid }

\* a transaction whose memos hold the hash of "doc", under either algorithm
DocMemosFound ==
    Found({create_timestamp_memo(DocHash("Sha256")),
           create_timestamp_memo(DocHash("Blake3"))})

ChainEntries ==
    { NotFound, Found({}), DocMemosFound,
      Found({create_timestamp_memo(Rep(HashLen, 9)), Rep(MemoSize, 0)}) }

Chains == { [t \in VerifyTxids |->
                IF t = VerifyAtt1.txid THEN e1
                ELSE IF t = VerifyAtt2.txid THEN e2 ELSE NotFound]
            : e1 \in ChainEntries, e2 \in {NotFound, DocMemosFound} }

InitVerify ==
    /\ pc = "v_start"
    /\ fe \in FrontEnds
    /\ proofFile \in ProofFiles
    /\ supplied \in SuppliedTexts
    /\ config \in BOOLEAN
    /\ chain \in Chains
    /\ walletCalls = << >>
    /\ walletResult = NoResult
    /\ taskMsg = NoOutcome
    /\ outcome = NoOutcome
    /\ verify_step = "FileOrHash"
    /\ verify_input_kind = "None"
    /\ operation_phase = "Input"
    /\ task_running = FALSE
    /\ verifying = FALSE
    /\ file_hash_matches = "none"
    /\ IdleCore
    /\ IdleMemo
    /\ IdleCompact
    /\ IdleTxid
    /\ IdleHex
    /\ IdleStamp
    /\ IdleTui
    /\ IdleDesk

\* a task hands its result over: the command line returns it, the tasks of
\* the two applications send it as a message
Deliver(r) ==
    IF fe = "cli"
    THEN /\ outcome' = r
         /\ pc' = "done"
         /\ taskMsg' = taskMsg
    ELSE /\ taskMsg' = r
         /\ pc' = "deliver"
         /\ outcome' = outcome

\* zots verify: run, down to the construction of the wallet
CliRun ==
    /\ pc = "v_start"
    /\ fe = "cli"
    /\ LET l == cli_run_local(proofFile, supplied, config)
       IN  /\ outcome' = IF l.go = "finish" THEN l.r ELSE outcome
           /\ pc' = IF l.go = "finish" THEN "done" ELSE "wallet_new"
           /\ file_hash_matches' = l.fhm
    /\ UNCHANGED <<fe, proofFile, supplied, config, chain, walletCalls, walletResult,
                   taskMsg, verify_step, verify_input_kind, operation_phase,
                   task_running, verifying, nonVerify>>

\* the terminal UI: Enter on the first field of the verify screen
TuiFileOrHash ==
    /\ pc = "v_start"
    /\ fe = "tui"
    /\ verify_step = "FileOrHash"
    /\ LET l == tui_file_or_hash(supplied)
       IN  /\ verify_input_kind' = l.kind
           /\ verify_step' = IF l.kind = "None" THEN verify_step ELSE "ProofPath"
           /\ outcome' = IF l.kind = "None" THEN l.r ELSE outcome
           /\ pc' = IF l.kind = "None" THEN "done" ELSE "v_proof_path"
    /\ UNCHANGED <<fe, proofFile, supplied, config, chain, walletCalls, walletResult,
                   taskMsg, operation_phase, task_running, verifying,
                   file_hash_matches, nonVerify>>

\* the terminal UI: Enter on the proof path field
TuiProofPath ==
    /\ pc = "v_proof_path"
    /\ fe = "tui"
    /\ verify_step = "ProofPath"
    /\ ~ task_running
    /\ LET l == tui_proof_path(proofFile, verify_input_kind, trim(supplied), config)
       IN  /\ file_hash_matches' = l.fhm
           /\ outcome' = IF l.go = "finish" THEN l.r ELSE outcome
           /\ pc' = IF l.go = "finish" THEN "done" ELSE "wallet_new"
           /\ task_running' = (l.go = "wallet")
           /\ verify_step' =
                IF l.go = "wallet" THEN "Verifying"
                ELSE IF l.r.isErr THEN verify_step ELSE "Results"
           /\ operation_phase' =
                IF l.go = "wallet" THEN "Syncing"
                ELSE IF l.r.isErr
                THEN (IF l.r.prefix = "Invalid TXID" THEN "Failed" ELSE operation_phase)
                ELSE IF l.r.file_hash_matches = "false" THEN "Failed"
                ELSE "Complete"
    /\ UNCHANGED <<fe, proofFile, supplied, config, chain, walletCalls, walletResult,
                   taskMsg, verify_input_kind, verifying, nonVerify>>

\* the desktop application: Message::StartVerify
DesktopStartVerify ==
    /\ pc = "v_start"
    /\ fe = "desktop"
    /\ verifying' = TRUE
    /\ pc' = "v_task"
    /\ UNCHANGED <<fe, proofFile, supplied, config, chain, walletCalls, walletResult,
                   taskMsg, outcome, verify_step, verify_input_kind, operation_phase,
                   task_running, file_hash_matches, nonVerify>>

\* the desktop application: run_verify, down to the construction of the wallet
DesktopRunVerify ==
    /\ pc = "v_task"
    /\ fe = "desktop"
    /\ LET l == desktop_run_verify_local(config, supplied, proofFile)
       IN  /\ file_hash_matches' = l.fhm
           /\ taskMsg' = IF l.go = "finish" THEN l.r ELSE taskMsg
           /\ pc' = IF l.go = "finish" THEN "deliver" ELSE "wallet_new"
    /\ UNCHANGED <<fe, proofFile, supplied, config, chain, walletCalls, walletResult,
                   outcome, verify_step, verify_input_kind, operation_phase,
                   task_running, verifying, nonVerify>>

\* ZotsWallet::new(config).await
WalletNew ==
    /\ pc = "wallet_new"
    /\ walletCalls' = Append(walletCalls, [op |-> "new"])
    /\ \E ok \in BOOLEAN :
        IF ok
        THEN /\ pc' = "init_account"
             /\ UNCHANGED <<taskMsg, outcome>>
        ELSE Deliver(Failed(IF fe = "tui" THEN "Wallet error" ELSE "",
                            "cannot open the wallet database"))
    /\ UNCHANGED <<fe, proofFile, supplied, config, chain, walletResult,
                   verify_step, verify_input_kind, operation_phase,
                   task_running, verifying, file_hash_matches, nonVerify>>

\* wallet.init_account().await
InitAccount ==
    /\ pc = "init_account"
    /\ walletCalls' = Append(walletCalls, [op |-> "init_account"])
    /\ \E ok \in BOOLEAN :
        IF ok
        THEN /\ pc' = "verify_tx"
             /\ UNCHANGED <<taskMsg, outcome>>
        ELSE Deliver(Failed(IF fe = "tui" THEN "Account init error" ELSE "",
                            "cannot derive the account"))
    /\ UNCHANGED <<fe, proofFile, supplied, config, chain, walletResult,
                   verify_step, verify_input_kind, operation_phase,
                   task_running, verifying, file_hash_matches, nonVerify>>

\* the wallet step of a verification that asks again when the wallet fails
VerifyTx_retry ==
    /\ pc = "verify_tx"
    /\ LET p == load(proofFile).val
           att == first_attestation(p)
           txid == txid_bytes(att)
       IN  IF ~ txid.ok
           THEN /\ Deliver(Failed("", txid.msg))
                /\ UNCHANGED <<walletCalls, walletResult>>
           ELSE /\ walletCalls' = Append(walletCalls,
                        [op |-> "verify_timestamp_tx", txid |-> txid.val,
                         expected_hash |-> hash_bytes(p).val,
                         block_height |-> Some(att.block_height)])
                /\ \E result \in { Ok(verify_timestamp_tx(chain, txid.val,
                                        hash_bytes(p).val, Some(att.block_height))),
                                   NetworkError } :
                    /\ walletResult' = result
                    /\ IF ~ result.ok
                       THEN /\ pc' = "verify_tx"
                            /\ UNCHANGED <<outcome, taskMsg>>
                       ELSE Deliver(IF fe = "cli"
                                    THEN cli_verdict(result, att, file_hash_matches)
                                    ELSE IF fe = "tui"
                                    THEN tui_verdict(result, att, file_hash_matches)
                                    ELSE desktop_verdict(result, att, file_hash_matches))
    /\ UNCHANGED <<fe, proofFile, supplied, config, chain,
                   verify_step, verify_input_kind, operation_phase,
                   task_running, verifying, file_hash_matches, nonVerify>>

\* att.txid_bytes()?, where the front end has not done it before, then
\* wallet.verify_timestamp_tx(&txid_bytes, &proof_hash_bytes, Some(att.block_height)).await
VerifyTx ==
    /\ pc = "verify_tx"
    /\ LET p == load(proofFile).val
           att == first_attestation(p)
           txid == txid_bytes(att)
       IN  IF ~ txid.ok
           THEN /\ Deliver(Failed("", txid.msg))
                /\ UNCHANGED <<walletCalls, walletResult>>
           ELSE /\ walletCalls' = Append(walletCalls,
                        [op |-> "verify_timestamp_tx", txid |-> txid.val,
                         expected_hash |-> hash_bytes(p).val,
                         block_height |-> Some(att.block_height)])
                /\ \E result \in { Ok(verify_timestamp_tx(chain, txid.val,
                                        hash_bytes(p).val, Some(att.block_height))),
                                   NetworkError } :
                    /\ walletResult' = result
                    /\ Deliver(IF fe = "cli"
                               THEN cli_verdict(result, att, file_hash_matches)
                               ELSE IF fe = "tui"
                               THEN tui_verdict(result, att, file_hash_matches)
                               ELSE desktop_verdict(result, att, file_hash_matches))
    /\ UNCHANGED <<fe, proofFile, supplied, config, chain,
                   verify_step, verify_input_kind, operation_phase,
                   task_running, verifying, file_hash_matches, nonVerify>>

\* the terminal UI: App::tick takes TaskMessage::VerifyComplete or VerifyFailed
TuiTick ==
    /\ pc = "deliver"
    /\ fe = "tui"
    /\ outcome' = taskMsg
    /\ verify_step' = IF taskMsg.isErr THEN verify_step ELSE "Results"
    /\ operation_phase' = IF taskMsg.valid THEN "Complete" ELSE "Failed"
    /\ task_running' = FALSE
    /\ pc' = "done"
    /\ UNCHANGED <<fe, proofFile, supplied, config, chain, walletCalls, walletResult,
                   taskMsg, verify_input_kind, verifying, file_hash_matches,
                   nonVerify>>

\* the desktop application: Message::VerifyComplete or Message::VerifyFailed
DesktopUpdate ==
    /\ pc = "deliver"
    /\ fe = "desktop"
    /\ outcome' = taskMsg
    /\ verifying' = FALSE
    /\ pc' = "done"
    /\ UNCHANGED <<fe, proofFile, supplied, config, chain, walletCalls, walletResult,
                   taskMsg, verify_step, verify_input_kind, operation_phase,
                   task_running, file_hash_matches, nonVerify>>

NextVerify ==
    \/ CliRun
    \/ TuiFileOrHash
    \/ TuiProofPath
    \/ DesktopStartVerify
    \/ DesktopRunVerify
    \/ WalletNew
    \/ InitAccount
    \/ VerifyTx
    \/ TuiTick
    \/ DesktopUpdate

SpecVerify == InitVerify /\ [][NextVerify]_vars

\* the verification has ended with the verdict "valid"
ReportedValid == pc = "done" /\ ~ outcome.isErr /\ outcome.valid

\* the wallet was asked about the first attestation's transaction and the
\* proof's hash, and found that hash in a memo of that transaction
WalletVerified ==
    /\ load(proofFile).ok
    /\ load(proofFile).val.attestations # << >>
    /\ walletResult # NoResult
    /\ walletResult.ok
    /\ walletResult.val.valid
    /\ walletResult.val.memo_hash = Some(load(proofFile).val.hash)
    /\ \E i \in 1..Len(walletCalls) :
        /\ walletCalls[i].op = "verify_timestamp_tx"
        /\ walletCalls[i].txid = first_attestation(load(proofFile).val).txid
        /\ walletCalls[i].expected_hash = load(proofFile).val.hash
    /\ \E m \in chain[first_attestation(load(proofFile).val).txid].memos :
        parse_timestamp_memo(m) = Some(load(proofFile).val.hash)

\* C1: a verification reports "valid" only if the wallet found, in a memo of
\* the first attestation's transaction, a hash equal to the proof's hash; no
\* front end reports "valid" from the attestation's metadata alone, the case
\* of no wallet being configured included.
C1_ValidOnlyFromWallet == ReportedValid => WalletVerified

\* the recomputation of the supplied original under the proof's own algorithm
SuppliedHash ==
    LET p == load(proofFile).val
        t == IF fe = "tui" THEN trim(supplied) ELSE supplied
    IN  IF fe = "cli" \/ path_exists(t) THEN hash_file_with(t, p.hash_algorithm)
        ELSE hash_from_hex_with(t, p.hash_algorithm)

\* an original was supplied, and its hash is not the hash of the proof
Mismatch ==
    /\ load(proofFile).ok
    /\ hash_bytes(load(proofFile).val).ok
    /\ supplied # << >>
    /\ fe = "tui" => tui_file_or_hash(supplied).kind # "None"
    /\ SuppliedHash.ok
    /\ SuppliedHash.val # load(proofFile).val.hash

MismatchMessages == { "Hash does NOT match original file!",
                      "Hash does NOT match the provided file/hash!" }

\* C2: when the supplied original does not hash to the proof's hash, the
\* verification ends with the mismatch failure and the wallet is never
\* called; the comparison comes before the attestation check, so a proof
\* without attestations is reported as a mismatch and not as pending.
C2_MismatchEndsFirst ==
    Mismatch =>
        /\ walletCalls = << >>
        /\ pc \notin {"wallet_new", "init_account", "verify_tx"}
        /\ pc = "done" =>
            /\ ~ outcome.isErr
            /\ ~ outcome.valid
            /\ outcome.file_hash_matches = "false"
            /\ outcome.error \in MismatchMessages

\* a proof without attestations was checked against another file, with a
\* wallet configured
C2_Witness ==
    /\ Mismatch
    /\ pc = "done"
    /\ config
    /\ load(proofFile).val.attestations = << >>
    /\ outcome.error \in MismatchMessages

-----------------------------------------------------------------------------
(* The compact form of a proof: the prefix "zots1", then the text encoding of
   the packed fields followed by their checksum *)

\* "zots1"
COMPACT_PREFIX == << 122, 111, 116, 115, 49 >>

\* str::starts_with
starts_with(str, prefix) ==
    /\ Len(str) >= Len(prefix)
    /\ SubSeq(str, 1, Len(prefix)) = prefix

\* the URL-safe Base64 alphabet: A-Z, a-z, 0-9, '-', '_'
B64Char(v) ==
    IF v < 26 THEN 65 + v
    ELSE IF v < 52 THEN 97 + (v - 26)
    ELSE IF v < 62 THEN 48 + (v - 52)
    ELSE IF v = 62 THEN 45 ELSE 95

IsB64Char(c) ==
    \/ c \in 65..90
    \/ c \in 97..122
    \/ c \in 48..57
    \/ c \in {45, 95}

B64Val(c) ==
    IF c \in 65..90 THEN c - 65
    ELSE IF c \in 97..122 THEN c - 97 + 26
    ELSE IF c \in 48..57 THEN c - 48 + 52
    ELSE IF c = 45 THEN 62 ELSE 63

Pow2(n) == IF n = 0 THEN 1 ELSE IF n = 2 THEN 4 ELSE IF n = 4 THEN 16
           ELSE IF n = 6 THEN 64 ELSE IF n = 8 THEN 256 ELSE 1024

ByteAt(b, i) == IF i <= Len(b) THEN b[i] ELSE 0

\* Base64 without padding: character k carries bits 6k .. 6k+5 of the input
b64_encode(b) ==
    [k \in 1..((4 * Len(b) + 2) \div 3) |->
        LET bitpos == 6 * (k - 1)
            first == (bitpos \div 8) + 1
            off == bitpos % 8
            w == 256 * ByteAt(b, first) + ByteAt(b, first + 1)
        IN  B64Char((w \div Pow2(10 - off)) % 64)]

\* the bytes a Base64 text without padding stands for; no result for a
\* character outside the alphabet, a length no encoding has, or left-over
\* bits that are not zero
b64_decode(t) ==
    LET n == (6 * Len(t)) \div 8
        decoded ==
            [j \in 1..n |->
                LET bitpos == 8 * (j - 1)
                    first == (bitpos \div 6) + 1
                    off == bitpos % 6
                    w == 64 * B64Val(t[first]) + B64Val(t[first + 1])
                IN  (w \div Pow2(4 - off)) % 256]
    IN  IF \E k \in 1..Len(t) : ~ IsB64Char(t[k])
        THEN InvalidProof("Invalid compact encoding", 0)
        ELSE IF Len(t) % 4 = 1 THEN InvalidProof("Invalid compact length", Len(t))
        ELSE IF b64_encode(decoded) # t THEN InvalidProof("Invalid compact padding", 0)
        ELSE Ok(decoded)

HashAlgorithm_to_byte(a) == IF a = "Sha256" THEN 0 ELSE 1

HashAlgorithm_from_byte(b) ==
    IF b = 0 THEN Ok("Sha256")
    ELSE IF b = 1 THEN Ok("Blake3")
    ELSE InvalidProof("Unknown hash algorithm", b)

ChecksumMod == 65536

\* the sum of position times byte over the positions lo..hi
RECURSIVE byte_sum(_, _, _)
byte_sum(b, lo, hi) ==
    IF lo > hi THEN 0
    ELSE IF lo = hi THEN (lo * b[lo]) % ChecksumMod
    ELSE LET mid == (lo + hi) \div 2
         IN  (byte_sum(b, lo, mid) + byte_sum(b, mid + 1, hi)) % ChecksumMod

\* the two checksum bytes that follow the packed fields
checksum(b) == to_le_bytes16(byte_sum(b, 1, Len(b)))

CompactHeadLen == 4 + HashLen

\* the packed fields: version, algorithm, hash, number of attestations, the
\* attestations
pack(p) ==
    << p.version, HashAlgorithm_to_byte(p.hash_algorithm) >>
        \o p.hash
        \o to_le_bytes16(Len(p.attestations))
        \o serialize_atts(p.attestations)

\* the reverse of pack
unpack(d) ==
    IF Len(d) < CompactHeadLen THEN InvalidProof("Truncated compact proof", Len(d))
    ELSE IF d[1] # PROOF_VERSION THEN InvalidProof("Unsupported version", d[1])
    ELSE IF ~ HashAlgorithm_from_byte(d[2]).ok THEN HashAlgorithm_from_byte(d[2])
    ELSE LET count == from_le_bytes16(SubSeq(d, 3 + HashLen, 4 + HashLen))
             atts == parse_attestations(d, CompactHeadLen, count)
         IN  IF Len(d) # CompactHeadLen + AttLen * count
             THEN InvalidProof("Attestation count does not match", count)
             ELSE IF ~ atts.ok THEN atts
             ELSE Ok(LoadedProof(HashAlgorithm_from_byte(d[2]).val,
                                 SubSeq(d, 3, 2 + HashLen), atts.val))

\* TimestampProof::to_compact
to_compact(p) == Ok(COMPACT_PREFIX \o b64_encode(pack(p) \o checksum(pack(p))))

\* TimestampProof::is_compact_format
TimestampProof_is_compact_format(str) == starts_with(str, COMPACT_PREFIX)

\* TimestampProof::from_compact
from_compact(str) ==
    IF ~ starts_with(str, COMPACT_PREFIX) THEN InvalidProof("Missing zots1 prefix", 0)
    ELSE LET bytes == b64_decode(SubSeq(str, Len(COMPACT_PREFIX) + 1, Len(str)))
         IN  IF ~ bytes.ok THEN bytes
             ELSE IF Len(bytes.val) < 2
             THEN InvalidProof("Truncated compact proof", Len(bytes.val))
             ELSE LET body == SubSeq(bytes.val, 1, Len(bytes.val) - 2)
                      sum == SubSeq(bytes.val, Len(bytes.val) - 1, Len(bytes.val))
                  IN  IF checksum(body) # sum
                      THEN InvalidProof("Checksum mismatch", 0)
                      ELSE unpack(body)

-----------------------------------------------------------------------------
(* zots-wasm/src/lib.rs *)

JsError(e) == [ok |-> FALSE, kind |-> "JsError", msg |-> e.msg, arg |-> e.arg]

\* encode_proof that leaves the attestations out
encode_proof_pending(p) ==
    LET r == to_compact([p EXCEPT !.attestations = << >>])
    IN  IF r.ok THEN r ELSE JsError(r)

\* encode_proof
encode_proof(p) ==
    LET r == to_compact(p)
    IN  IF r.ok THEN r ELSE JsError(r)

\* decode_proof
decode_proof(compact) ==
    LET r == from_compact(compact)
    IN  IF r.ok THEN r ELSE JsError(r)

\* is_compact_format that accepts only what decodes
is_compact_format_decodable(str) == from_compact(str).ok

\* is_compact_format
is_compact_format(str) == TimestampProof_is_compact_format(str)

-----------------------------------------------------------------------------
(* SpecCompact: a proof is encoded to its compact string, the string is
   recognised and decoded; strings from elsewhere are handled the same way *)

CompactAttLists ==
    { << >>, <<VerifyAtt1>>, <<VerifyAtt1, VerifyAtt2>>, <<VerifyAtt2, VerifyAtt1>>,
      <<VerifyAtt1, VerifyAtt1>> }
    \cup { <<a, b, c>> : a \in {VerifyAtt1}, b \in Atts, c \in {VerifyAtt2} }

CompactProofs ==
    { LoadedProof(a, h, atts) :
        a \in HashAlgorithms,
        h \in {DocHash("Sha256"), Rep(HashLen, 0), Rep(HashLen, 255)},
        atts \in CompactAttLists }

\* "ZOTS1abc", " zots1abc", "zots2abc", "{}", a path, bytes that are no
\* text, control characters, "zots1" with such bytes behind it
GarbageTexts ==
    { << 90, 79, 84, 83, 49, 97, 98, 99 >>,
      << 32 >> \o COMPACT_PREFIX \o << 97, 98, 99 >>,
      << 122, 111, 116, 115, 50, 97, 98, 99 >>,
      << 123, 125 >>,
      << 46, 47, 112, 46, 122, 111, 116, 115 >>,
      << 255, 254, 0, 128 >>,
      << 0 >>,
      Rep(300, 122),
      COMPACT_PREFIX \o << 255, 0, 10 >>,
      COMPACT_PREFIX \o Rep(300, 61) }

\* "zots1abc123", "invalid", the empty string, "zots", "zots1", "zots1{}"
ForeignTexts ==
    { COMPACT_PREFIX \o << 97, 98, 99, 49, 50, 51 >>,
      << 105, 110, 118, 97, 108, 105, 100 >>,
      << >>,
      << 122, 111, 116, 115 >>,
      COMPACT_PREFIX,
      COMPACT_PREFIX \o << 123, 125 >> }
    \cup GarbageTexts

GarblePositions == {1, 5, 6, 7, 20, 54}

GarbleChars == {65, 66, 122, 43}

InitCompact ==
    /\ pc = "c_start"
    /\ cproof \in CompactProofs
    /\ ctext = << >>
    /\ csrc = "none"
    /\ cfmt = FALSE
    /\ cres = NoResult
    /\ IdleCore
    /\ IdleMemo
    /\ IdleVerify
    /\ IdleTxid
    /\ IdleHex
    /\ IdleStamp
    /\ IdleTui
    /\ IdleDesk

\* encode_proof(proof)
EncodeProof ==
    /\ pc = "c_start"
    /\ encode_proof(cproof).ok
    /\ ctext' = encode_proof(cproof).val
    /\ csrc' = "encoded"
    /\ pc' = "c_text"
    /\ UNCHANGED <<cproof, cfmt, cres, nonCompact>>

\* a string that no encoder of this program produced
ReceiveText ==
    /\ pc = "c_start"
    /\ ctext' \in ForeignTexts
    /\ csrc' = "foreign"
    /\ pc' = "c_text"
    /\ UNCHANGED <<cproof, cfmt, cres, nonCompact>>

\* one character of an encoded string is replaced on the way
GarbleText ==
    /\ pc = "c_text"
    /\ csrc = "encoded"
    /\ \E i \in GarblePositions, c \in GarbleChars :
        /\ i <= Len(ctext)
        /\ ctext[i] # c
        /\ ctext' = [ctext EXCEPT ![i] = c]
    /\ csrc' = "garbled"
    /\ UNCHANGED <<pc, cproof, cfmt, cres, nonCompact>>

\* an encoded string loses its end on the way
CutText ==
    /\ pc = "c_text"
    /\ csrc = "encoded"
    /\ \E n \in {3, 5, 30, Len(ctext) - 1} :
        ctext' = SubSeq(ctext, 1, n)
    /\ csrc' = "garbled"
    /\ UNCHANGED <<pc, cproof, cfmt, cres, nonCompact>>

\* is_compact_format(s)
CheckFormat ==
    /\ pc = "c_text"
    /\ cfmt' = is_compact_format(ctext)
    /\ pc' = "c_checked"
    /\ UNCHANGED <<cproof, ctext, csrc, cres, nonCompact>>

\* decode_proof(compact)
DecodeProof ==
    /\ pc = "c_checked"
    /\ cres' = decode_proof(ctext)
    /\ pc' = "c_decoded"
    /\ UNCHANGED <<cproof, ctext, csrc, cfmt, nonCompact>>

NextCompact ==
    \/ EncodeProof
    \/ ReceiveText
    \/ GarbleText
    \/ CutText
    \/ CheckFormat
    \/ DecodeProof

SpecCompact == InitCompact /\ [][NextCompact]_vars

-----------------------------------------------------------------------------
(* Transaction ids: internal byte order in the attestation, reversed byte
   order on display *)

\* <[u8]>::reverse
reverse(b) == [i \in 1..Len(b) |-> b[Len(b) + 1 - i]]

\* str::to_lowercase, on ASCII text
to_lowercase(t) == [i \in 1..Len(t) |-> IF t[i] \in 65..90 THEN t[i] + 32 ELSE t[i]]

\* ZcashAttestation::txid_hex without the reversal
txid_hex_internal_order(att) == hex_encode(att.txid)

\* ZcashAttestation::txid_hex
txid_hex(att) == hex_encode(reverse(att.txid))

\* "mainnet", "main", "testnet", "test"
NetMainnet == << 109, 97, 105, 110, 110, 101, 116 >>

NetMain == << 109, 97, 105, 110 >>

NetTestnet == << 116, 101, 115, 116, 110, 101, 116 >>

NetTest == << 116, 101, 115, 116 >>

JsErrorNew(m) == [ok |-> FALSE, kind |-> "JsError", msg |-> m, arg |-> 0]

\* add_attestation of zots-wasm
wasm_add_attestation(p, network, txid, block_height, block_time, memo_offset) ==
    LET name == to_lowercase(network)
        txid_decoded == hex_decode(txid)
    IN  IF name \notin {NetMainnet, NetMain, NetTestnet, NetTest}
        THEN JsErrorNew("Invalid network: use 'mainnet' or 'testnet'")
        ELSE IF ~ txid_decoded.ok THEN JsErrorNew("Invalid txid hex")
        ELSE IF Len(txid_decoded.val) # HashLen
        THEN JsErrorNew("TXID must be 32 bytes (64 hex chars)")
        ELSE Ok(add_attestation(p,
                ZcashAttestation(
                    IF name \in {NetMainnet, NetMain} THEN "Mainnet" ELSE "Testnet",
                    reverse(txid_decoded.val),
                    block_height, block_time, memo_offset)))

-----------------------------------------------------------------------------
(* SpecTxid: a transaction id enters as internal bytes or as display text,
   becomes part of an attestation and is read back both ways *)

TxidFill == {0, 1, 127, 128, 171, 205, 255}

\* 32-byte values: constant ones and ones whose reversal differs
TxidValues ==
    { Rep(HashLen, b) : b \in TxidFill }
    \cup { [i \in 1..HashLen |-> (m * i + c) % 256] : m \in {1, 7, 37, 255}, c \in {0, 90} }

\* lowercase "a".."f" become "A".."F"
to_uppercase(t) == [i \in 1..Len(t) |-> IF t[i] \in 97..122 THEN t[i] - 32 ELSE t[i]]

\* display text: what txid_hex prints
LowerDisplayTexts == { hex_encode(t) : t \in TxidValues }

\* display text as a user may paste it: also in upper case
DisplayTexts == LowerDisplayTexts \cup { to_uppercase(d) : d \in LowerDisplayTexts }

\* text that is no 32-byte transaction id
BadTxidTexts == { << >>, << 97, 98 >>, Rep(64, 122), Rep(63, 97), Rep(66, 97) }

TxidInputs ==
    { [form |-> "internal", bytes |-> t, text |-> << >>] : t \in TxidValues }
    \cup { [form |-> "display", bytes |-> << >>, text |-> d] :
                d \in DisplayTexts \cup BadTxidTexts }

NetworkTexts == { NetMainnet, NetTest, to_uppercase(NetTestnet), << 122 >> }

InitTxid ==
    /\ pc = "t_start"
    /\ tIn \in TxidInputs
    /\ tAtt = NoResult
    /\ tBytes = NoResult
    /\ tHex = << >>
    /\ IdleCore
    /\ IdleMemo
    /\ IdleVerify
    /\ IdleCompact
    /\ IdleHex
    /\ IdleStamp
    /\ IdleTui
    /\ IdleDesk

\* ZcashAttestation { network, txid, .. }
NewAttestation ==
    /\ pc = "t_start"
    /\ tIn.form = "internal"
    /\ \E network \in Networks :
        tAtt' = Ok(ZcashAttestation(network, tIn.bytes, 100, 1700000000, 0))
    /\ pc' = "t_have"
    /\ UNCHANGED <<tIn, tBytes, tHex, nonTxid>>

\* add_attestation(proof, network, txid, ..) of zots-wasm, on a new proof
WasmAddAttestation ==
    /\ pc = "t_start"
    /\ tIn.form = "display"
    /\ \E network \in NetworkTexts :
        LET r == wasm_add_attestation(
                    LoadedProof("Sha256", DocHash("Sha256"), << >>),
                    network, tIn.text, 100, 1700000000, 8)
        IN  /\ tAtt' = IF r.ok THEN Ok(r.val.attestations[Len(r.val.attestations)])
                       ELSE r
            /\ pc' = IF r.ok THEN "t_have" ELSE "t_failed"
    /\ UNCHANGED <<tIn, tBytes, tHex, nonTxid>>

\* att.txid_bytes()
TxidBytes ==
    /\ pc = "t_have"
    /\ tBytes' = txid_bytes(tAtt.val)
    /\ pc' = "t_bytes"
    /\ UNCHANGED <<tIn, tAtt, tHex, nonTxid>>

\* att.txid_hex()
TxidHex ==
    /\ pc = "t_bytes"
    /\ tHex' = txid_hex(tAtt.val)
    /\ pc' = "t_done"
    /\ UNCHANGED <<tIn, tAtt, tBytes, nonTxid>>

NextTxid == NewAttestation \/ WasmAddAttestation \/ TxidBytes \/ TxidHex

SpecTxid == InitTxid /\ [][NextTxid]_vars

IsLowerHex(t) == \A i \in 1..Len(t) : t[i] \in (48..57) \cup (97..102)

\* from internal bytes t: txid_bytes gives t, txid_hex the lowercase hex of t
\* reversed
InternalReadBack ==
    (pc = "t_done" /\ tIn.form = "internal") =>
        /\ tBytes = Ok(tIn.bytes)
        /\ Len(tHex) = 64
        /\ IsLowerHex(tHex)
        /\ hex_decode(tHex) = Ok(reverse(tIn.bytes))

\* C11, as stated: txid_bytes returns the internal bytes unchanged, txid_hex
\* is the lowercase hex of the reversed bytes, and a display text that went
\* through the wasm add_attestation comes back from txid_hex as it was.
C11_DisplayRoundTripExact ==
    /\ InternalReadBack
    /\ (pc = "t_done" /\ tIn.form = "display") => tHex = tIn.text

\* C11, amended: the display text comes back from txid_hex in lower case.
C11_DisplayRoundTripLower ==
    /\ InternalReadBack
    /\ (pc = "t_done" /\ tIn.form = "display") =>
            /\ tHex = to_lowercase(tIn.text)
            /\ tBytes = Ok(reverse(hex_decode(tIn.text).val))

\* an upper-case display text whose reversal differs from it went through
C11_Witness ==
    /\ pc = "t_done"
    /\ tIn.form = "display"
    /\ tIn.text # to_lowercase(tIn.text)
    /\ reverse(tAtt.val.txid) # tAtt.val.txid
    /\ tHex = to_lowercase(tIn.text)

-----------------------------------------------------------------------------
(* SpecHex: hash_from_hex_with on texts of every kind, hash_to_hex on what
   it returns *)

\* the digits of 20 and of 32 bytes
HexBodies ==
    { hex_encode(Rep(20, 171)), hex_encode([i \in 1..20 |-> 13 * i]),
      hex_encode(Rep(HashLen, 171)), hex_encode([i \in 1..HashLen |-> 255 - 7 * i]),
      hex_encode(Rep(HashLen, 0)) }

\* texts of other lengths; the lengths next to 40 and 64 are among them
OtherLengths == {0, 2, 32, 39, 41, 63, 65, 66, 128}

\* 'g' or a blank in the middle of 40 or 64 characters
NonHexBodies ==
    { [b EXCEPT ![i] = c] : b \in HexBodies, i \in {1, 17, 40}, c \in {103, 32, 120} }

HexPrefixes == { << >>, << 48, 120 >>, << 48, 120, 48, 120 >>, << 32 >>, << 32, 48, 120 >> }

HexTexts ==
    { pre \o body \o post :
        pre \in HexPrefixes,
        body \in HexBodies \cup { to_uppercase(b) : b \in HexBodies }
                 \cup NonHexBodies \cup { Rep(n, 97) : n \in OtherLengths },
        post \in { << >>, << 10 >> } }

InitHex ==
    /\ pc = "h_start"
    /\ hIn \in HexTexts
    /\ hAlg \in HashAlgorithms
    /\ hRes = NoResult
    /\ hOut = << >>
    /\ IdleCore
    /\ IdleMemo
    /\ IdleVerify
    /\ IdleCompact
    /\ IdleTxid
    /\ IdleStamp
    /\ IdleTui
    /\ IdleDesk

\* hash_from_hex_with(hex_str, algorithm)
HashFromHex ==
    /\ pc = "h_start"
    /\ hRes' = hash_from_hex_with(hIn, hAlg)
    /\ pc' = "h_parsed"
    /\ UNCHANGED <<hIn, hAlg, hOut, nonHex>>

\* hash_to_hex(&hash)
HashToHex ==
    /\ pc = "h_parsed"
    /\ hRes.ok
    /\ hOut' = hash_to_hex(hRes.val)
    /\ pc' = "h_done"
    /\ UNCHANGED <<hIn, hAlg, hRes, nonHex>>

NextHex == HashFromHex \/ HashToHex

SpecHex == InitHex /\ [][NextHex]_vars

\* the input without surrounding white space and leading "0x"
Cleaned == trim_start_matches_0x(trim(hIn))

OtherAlgorithm(a) == IF a = "Sha256" THEN "Blake3" ELSE "Sha256"

\* C12: 40 hex characters give the algorithm's hash of the 20 decoded bytes,
\* so the two algorithms give different results; 64 hex characters give the
\* 32 decoded bytes whatever the algorithm, and hash_to_hex of them is the
\* input in lower case.
C12_LengthDispatch ==
    /\ (pc \in {"h_parsed", "h_done"} /\ Len(Cleaned) = 40 /\ hex_decode(Cleaned).ok) =>
            /\ hRes = Ok(hash_bytes_with(hex_decode(Cleaned).val, hAlg))
            /\ hRes # hash_from_hex_with(hIn, OtherAlgorithm(hAlg))
    /\ (pc \in {"h_parsed", "h_done"} /\ Len(Cleaned) = 64 /\ hex_decode(Cleaned).ok) =>
            /\ hRes = Ok(hex_decode(Cleaned).val)
            /\ hRes = hash_from_hex_with(hIn, OtherAlgorithm(hAlg))
    /\ (pc = "h_done" /\ Len(Cleaned) = 64) => hOut = to_lowercase(Cleaned)

\* 64 upper-case digits behind "0x" went through both functions with BLAKE3
C12_Witness ==
    /\ pc = "h_done"
    /\ hAlg = "Blake3"
    /\ Len(Cleaned) = 64
    /\ Len(hIn) > 64
    /\ Cleaned # to_lowercase(Cleaned)
    /\ hOut = to_lowercase(Cleaned)

\* C13: a cleaned length other than 40 and 64 gives InvalidHash with that
\* length; 40 or 64 characters with one that is no hex digit give
\* InvalidHash; no invalid input gives a value.
C13_InvalidHexRejected ==
    pc = "h_parsed" =>
        IF Len(Cleaned) \notin {40, 64}
        THEN hRes = InvalidHash("Expected 40 or 64 hex chars, got", Len(Cleaned))
        ELSE IF \E i \in 1..Len(Cleaned) : ~ IsHexChar(Cleaned[i])
        THEN ~ hRes.ok /\ hRes.kind = "InvalidHash"
        ELSE hRes.ok

\* 64 characters, one of them no hex digit, were refused
C13_Witness ==
    /\ pc = "h_parsed"
    /\ Len(Cleaned) = 64
    /\ \E i \in 1..64 : ~ IsHexChar(Cleaned[i])
    /\ ~ hRes.ok

-----------------------------------------------------------------------------
(* Further properties of SpecVerify *)

\* the heading under which the front end shows what it reports
ShownAs ==
    IF outcome.isErr THEN "Error"
    ELSE IF fe = "cli" THEN outcome.prefix
    ELSE IF fe = "tui" THEN tui_heading(outcome)
    ELSE desktop_heading(outcome)

FailureHeadings == { "Error", "print_error", "VERIFICATION FAILED", "Verification Failed" }

PendingMessages == { "No attestations found - proof is pending confirmation",
                     "Proof is pending (no attestations yet)",
                     "Proof is pending (no attestations)" }

\* the proof loads, has no attestation, and what was supplied, if anything,
\* hashes to the proof's hash
PendingCase ==
    /\ load(proofFile).ok
    /\ hash_bytes(load(proofFile).val).ok
    /\ load(proofFile).val.attestations = << >>
    /\ fe = "tui" => tui_file_or_hash(supplied).kind # "None"
    /\ supplied # << >> => (SuppliedHash.ok /\ SuppliedHash.val = load(proofFile).val.hash)

\* C14: a proof without attestations, the supplied data matching, ends as
\* "pending": the wallet is never called, and what is reported is no error
\* and is not shown as a failure.
C14_PendingNotFailure ==
    PendingCase =>
        /\ walletCalls = << >>
        /\ pc = "done" =>
            /\ ~ outcome.isErr
            /\ outcome.error \in PendingMessages
            /\ ShownAs \notin FailureHeadings

\* the wallet answered, and did not find the proof's hash
WalletRefused == walletResult.ok /\ ~ walletResult.val.valid

\* C15: for a proof with an attestation, what the wallet gives as the reason
\* of a refusal is what the front end reports, unchanged: "transaction not
\* found" when the transaction is not there, "memo hash does not match" when
\* it is there without the hash; neither is reported as pending or as valid.
C15_ReasonsDistinct ==
    (pc = "done" /\ WalletRefused) =>
        /\ ~ outcome.isErr
        /\ ~ outcome.valid
        /\ ShownAs \in FailureHeadings
        /\ outcome.error = walletResult.val.error
        /\ outcome.prefix \in {"", "print_error"}
        /\ outcome.error \notin PendingMessages
        /\ outcome.error = "Transaction not found"
            <=> ~ chain[first_attestation(load(proofFile).val).txid].found
        /\ outcome.error = "Memo hash does not match"
            <=> chain[first_attestation(load(proofFile).val).txid].found

\* the terminal UI has reported a transaction that is not there
C15_Witness ==
    /\ pc = "done"
    /\ fe = "tui"
    /\ WalletRefused
    /\ outcome.error = "Transaction not found"

-----------------------------------------------------------------------------
(* Further properties of SpecCompact *)

-----------------------------------------------------------------------------
(* Further properties of SpecVerify: the order of local checks and wallet
   operations *)

\* the messages of the errors found without the wallet: the proof does not
\* load, its hash or the attestation's transaction id is not 32 bytes, the
\* supplied file cannot be read, the supplied hash is no hash
LocalErrorMessages ==
    { "No such file or directory", "malformed proof", "Invalid hash length",
      "Invalid txid length", "cannot open file", "Invalid hex",
      "Expected 40 or 64 hex chars, got" }

\* the verification has ended with an error found locally
EndedWithLocalError ==
    /\ pc = "done"
    /\ outcome.isErr
    /\ outcome.error \in LocalErrorMessages

-----------------------------------------------------------------------------
(* The stamp flows: zots-cli commands/stamp.rs, tui/app.rs, zots-desktop app.rs *)

\* anyhow::anyhow!(..) and anyhow::bail!(..)
Anyhow(msg) == [ok |-> FALSE, kind |-> "anyhow", msg |-> msg, arg |-> 0]

\* ".zots"
ZotsSuffix == << 46, 122, 111, 116, 115 >>

\* format!("{}.zots", name)
zots_name(name) == name \o ZotsSuffix

\* &text[..16]
first16(text) == SubSeq(text, 1, 16)

\* what a flow knows once the hash is settled
Hashed(hash, output) == Ok([hash |-> hash, output_path |-> output])

\* commands/stamp.rs run, "Determine hash to timestamp"
cli_stamp_hash(file, hash, output, hash_algorithm) ==
    IF file.some
    THEN LET h == hash_file_with(file.val, hash_algorithm)
         IN  IF ~ h.ok THEN h
             ELSE Hashed(h.val, IF output.some THEN output.val ELSE zots_name(file.val))
    ELSE IF hash.some
    THEN LET h == hash_from_hex_with(hash.val, hash_algorithm)
         IN  IF ~ h.ok THEN h
             ELSE Hashed(h.val, IF output.some THEN output.val
                                ELSE zots_name(first16(hash.val)))
    ELSE Anyhow("Either a file path or --hash must be provided")

\* ZcashConfig::from_env, as far as the seed variable goes
from_env(cfg) ==
    IF cfg.some THEN Ok(cfg.val)
    ELSE Anyhow("ZOTS_SEED environment variable not set. Set your 24-word seed phrase.")

\* "Validate input and compute hash" of tui start_stamp_task and "Compute hash" of
\* desktop run_stamp: the two read the same, up to the wording of the failure
stamp_input_hash(input, hash_algorithm) ==
    IF path_exists(input)
    THEN LET h == hash_file_with(input, hash_algorithm)
         IN  IF ~ h.ok THEN h ELSE Hashed(h.val, zots_name(input))
    ELSE IF Len(input) >= 40
    THEN LET h == hash_from_hex_with(input, hash_algorithm)
         IN  IF ~ h.ok THEN h ELSE Hashed(h.val, zots_name(first16(input)))
    ELSE Anyhow("File not found and input is not a valid hash")

\* tui start_stamp_task up to the spawn: where it stops, what it shows
tui_start_stamp_task(input_buffer, cfg, hash_algorithm) ==
    LET input == trim(input_buffer)
        h == stamp_input_hash(input, hash_algorithm)
        stop(phase, prefix, error) ==
            [spawn |-> FALSE, phase |-> phase, h |-> h,
             shown |-> StampEnd("rejected", prefix, error, NoStampResult)]
    IN  IF Len(input) = 0
        THEN stop("unchanged", "", Anyhow("Please enter a file path or hash"))
        ELSE IF ~ cfg.some
        THEN stop("Failed", "", Anyhow("No wallet configured (set ZOTS_SEED)"))
        ELSE IF ~ h.ok
        THEN IF path_exists(input) THEN stop("Failed", "Hash error", h)
             ELSE IF Len(input) >= 40 THEN stop("Failed", "Invalid hash", h)
             ELSE stop("Failed", "", h)
        ELSE [spawn |-> TRUE, phase |-> "Syncing", h |-> h, shown |-> NotStamped]

\* desktop Message::StartStamp, up to Task::perform
desktop_start_stamp(stamp_input, cfg) ==
    IF Len(stamp_input) = 0
    THEN [spawn |-> FALSE, error |-> Anyhow("Please enter a file path or hash")]
    ELSE IF ~ cfg.some
    THEN [spawn |-> FALSE, error |-> Anyhow("No wallet configured")]
    ELSE [spawn |-> TRUE, error |-> NoResult]

\* min_required of create_timestamp_tx
MinRequired == 20000

\* ZotsWallet::create_timestamp_tx
create_timestamp_tx(has_account, transparent_balance, orchard_balance, sapling_balance) ==
    LET total_shielded == orchard_balance + sapling_balance
    IN  IF ~ has_account THEN Anyhow("No account found")
        ELSE IF total_shielded >= MinRequired
        THEN Anyhow("Full shielded transaction support (with zk-SNARK proofs) is coming soon.")
        ELSE IF transparent_balance >= MinRequired
        THEN Anyhow("Your funds are in the transparent pool.")
        ELSE Anyhow("Insufficient funds")

\* TimestampTxResult: the transaction id as text in display order and as bytes in
\* internal order, as the chain wallet hands it back once a transaction is broadcast
TimestampTxResult(txid_internal) ==
    Ok([txid |-> hex_encode(reverse(txid_internal)), txid_bytes |-> txid_internal])

\* ConfirmationResult
ConfirmationResult(block_height, block_time) ==
    Ok([block_height |-> block_height, block_time |-> block_time])

\* max_blocks, as all three flows pass it to wait_confirmation
WaitMaxBlocks == 10

\* one pass of the loop of wait_confirmation that takes a failed sync or height query
\* for "no new block yet" and goes on polling
wait_confirmation_round_skip_errors(start_height, synced, current_height, now) ==
    IF synced.ok /\ current_height.ok /\ current_height.val > start_height
    THEN [done |-> TRUE, r |-> ConfirmationResult(current_height.val, now)]
    ELSE [done |-> FALSE, r |-> NoResult]

\* one pass of the loop of wait_confirmation, given what sync and get_block_height return
wait_confirmation_round(start_height, synced, current_height, now) ==
    IF ~ synced.ok THEN [done |-> TRUE, r |-> synced]
    ELSE IF ~ current_height.ok THEN [done |-> TRUE, r |-> current_height]
    ELSE IF current_height.val > start_height
    THEN [done |-> TRUE, r |-> ConfirmationResult(current_height.val, now)]
    ELSE [done |-> FALSE, r |-> NoResult]

\* wait_confirmation once the loop has run max_blocks times
wait_confirmation_timeout == Anyhow("Transaction not confirmed within max_blocks blocks")

\* the attestation commands/stamp.rs run adds
cli_stamp_attestation(network, tx_result, confirmation) ==
    ZcashAttestation(network, tx_result.txid_bytes, confirmation.block_height,
                     confirmation.block_time, 0)

\* the attestation tui run_stamp_task adds
tui_stamp_attestation(network, tx_result, confirmation) ==
    ZcashAttestation(network, tx_result.txid_bytes, confirmation.block_height,
                     confirmation.block_time, 0)

\* the attestation desktop run_stamp adds
desktop_stamp_attestation(network, tx_result, confirmation) ==
    ZcashAttestation(network, tx_result.txid_bytes, confirmation.block_height,
                     confirmation.block_time, 0)

\* StampResult
StampResult(hash, tx_result, confirmation, output) ==
    [hash |-> hash_to_hex(hash), txid |-> tx_result.txid,
     block_height |-> confirmation.block_height, block_time |-> confirmation.block_time,
     output_path |-> output]

\* TaskMessage::Phase
PhaseMsg(phase) == [kind |-> "Phase", phase |-> phase, end |-> NotStamped]

\* TaskMessage::StampFailed, Message::StampFailed
StampFailedMsg(prefix, error) ==
    [kind |-> "StampFailed", phase |-> "Failed",
     end |-> StampEnd("failed", prefix, error, NoStampResult)]

\* TaskMessage::StampComplete, Message::StampComplete
StampCompleteMsg(result) ==
    [kind |-> "StampComplete", phase |-> "Complete",
     end |-> StampEnd("complete", "", NoResult, result)]

\* the TaskMessage arms of tui App::tick, one message at a time: the state is
\* <<operation_phase, task_running, what is shown>>
tick_one(app, m) ==
    IF m.kind = "Phase" THEN << m.phase, app[2], app[3] >>
    ELSE << m.phase, FALSE, m.end >>

RECURSIVE tick_all(_, _)
\* while let Ok(msg) = self.task_rx.try_recv()
tick_all(app, chan) ==
    IF Len(chan) = 0 THEN app ELSE tick_all(tick_one(app, Head(chan)), Tail(chan))

-----------------------------------------------------------------------------
(* SpecStamp: one stamp request, from the input to the saved proof *)

StampHex64 == hex_encode(Rep(HashLen, 171))

StampHex40 == SubSeq(StampHex64, 1, 40)

\* forty or more characters that are not hexadecimal
StampBadHex == Rep(64, 122)

\* "abc": no such file, too short for a hash
StampShortText == << 97, 98, 99 >>

\* "out.zots"
StampOutPath == << 111, 117, 116 >> \o ZotsSuffix

StampInputs ==
    { << >>, DocPath, LockedPath, << 32 >> \o DocPath, StampHex64, StampHex40,
      StampBadHex, StampShortText }

StampConfigs == { None } \cup { Some(n) : n \in Networks }

\* what the user hands to a front end; each front end reads its own fields
StampArgs(frontend) ==
    IF frontend = "cli"
    THEN [ file : { NoText, Some(DocPath), Some(LockedPath) },
           hash : { NoText, Some(StampHex64), Some(StampBadHex) },
           output : { NoText, Some(StampOutPath) },
           input : { << >> },
           no_wait : BOOLEAN,
           hash_algorithm : HashAlgorithms,
           config : StampConfigs ]
    ELSE [ file : { NoText }, hash : { NoText }, output : { NoText },
           input : StampInputs,
           no_wait : { FALSE },
           hash_algorithm : HashAlgorithms,
           config : StampConfigs ]

StampTxids == { Rep(HashLen, 1), [i \in 1..HashLen |-> i] }

StampBalances == { 0, MinRequired }

\* what the chain does with a broadcast transaction: it never includes it, or it
\* includes it in the block at some height, which has its own block time
StampBlocks ==
    { NotMined, Mined(101, 1700000000), Mined(101, 1699999000), Mined(102, 1700000000) }

\* what the chain wallet answers to create_timestamp_tx: what the body in wallet.rs
\* returns, or the transaction its interface promises
CreateResults ==
    { create_timestamp_tx(a, t, o, s) :
        a \in BOOLEAN, t \in StampBalances, o \in StampBalances, s \in StampBalances }
    \cup { TimestampTxResult(t) : t \in StampTxids }

\* what get_block_height answers when wait_confirmation starts
StampHeights == { 100 }

\* chrono::Utc::now() when the confirmation is seen
StampTimes == { 1700000000 }

InitStamp ==
    /\ pc = "s_start"
    /\ sFe \in FrontEnds
    /\ sArgs \in StampArgs(sFe)
    /\ sHash = NotHashed
    /\ sCalls = << >>
    /\ sTx = NoResult
    /\ sStart = 0
    /\ sRound = 0
    /\ sConf = NoResult
    /\ sProof = new_with_algorithm(Rep(HashLen, 0), "Sha256")
    /\ sSaved = FileMissing
    /\ sChan = << >>
    /\ sPhase = IF sFe = "desktop" THEN "Idle" ELSE "Input"
    /\ sRunning = FALSE
    /\ sOutcome = NotStamped
    /\ sBlock = NotMined
    /\ sPoll = NoPoll
    /\ sSaves = << >>
    /\ IdleCore
    /\ IdleMemo
    /\ IdleVerify
    /\ IdleCompact
    /\ IdleTxid
    /\ IdleHex
    /\ IdleTui
    /\ IdleDesk

\* the wallet state of a flow
stampWallet == <<sCalls, sTx, sStart, sRound, sConf>>

\* what the user sees of a flow
stampShown == <<sPhase, sRunning, sOutcome>>

\* a step of the flow fails: the CLI run and desktop run_stamp pass the error on with
\* `?` (the desktop turns it into Message::StampFailed), the tui task sends
\* StampFailed with its own wording in front
StampFails(chan, prefix, error) ==
    /\ pc' = "s_end"
    /\ IF sFe = "cli"
       THEN /\ sOutcome' = StampEnd("failed", "", error, NoStampResult)
            /\ sChan' = chan
       ELSE /\ sOutcome' = sOutcome
            /\ sChan' = Append(chan, StampFailedMsg(IF sFe = "tui" THEN prefix ELSE "",
                                                    error))

\* commands/stamp.rs run, up to ZcashConfig::from_env
CliStampHash ==
    /\ pc = "s_start"
    /\ sFe = "cli"
    /\ LET h == cli_stamp_hash(sArgs.file, sArgs.hash, sArgs.output, sArgs.hash_algorithm)
           c == from_env(sArgs.config)
       IN  IF ~ h.ok
           THEN StampFails(sChan, "", h) /\ sHash' = sHash
           ELSE IF ~ c.ok
           THEN StampFails(sChan, "", c) /\ sHash' = h.val
           ELSE /\ sHash' = h.val
                /\ pc' = "s_new"
                /\ UNCHANGED <<sChan, sOutcome>>
    /\ UNCHANGED <<sFe, sArgs, sBlock, sPoll, stampWallet, sProof, sSaved, sSaves, sPhase, sRunning, nonStamp>>

\* tui App::start_stamp_task
TuiStartStampTask ==
    /\ pc = "s_start"
    /\ sFe = "tui"
    /\ LET s == tui_start_stamp_task(sArgs.input, sArgs.config, sArgs.hash_algorithm)
       IN  IF s.spawn
           THEN /\ sRunning' = TRUE
                /\ sHash' = s.h.val
                /\ pc' = "s_new"
           ELSE /\ sRunning' = sRunning
                /\ sHash' = sHash
                /\ pc' = "s_end"
    /\ LET s == tui_start_stamp_task(sArgs.input, sArgs.config, sArgs.hash_algorithm)
       IN  /\ sPhase' = IF s.phase = "unchanged" THEN sPhase ELSE s.phase
           /\ sOutcome' = s.shown
    /\ UNCHANGED <<sFe, sArgs, sBlock, sPoll, stampWallet, sProof, sSaved, sSaves, sChan, nonStamp>>

\* desktop Message::StartStamp
DesktopStartStamp ==
    /\ pc = "s_start"
    /\ sFe = "desktop"
    /\ LET s == desktop_start_stamp(sArgs.input, sArgs.config)
       IN  IF s.spawn
           THEN /\ sPhase' = "Syncing"
                /\ sOutcome' = NotStamped
                /\ pc' = "s_hash"
           ELSE /\ sPhase' = sPhase
                /\ sOutcome' = StampEnd("rejected", "", s.error, NoStampResult)
                /\ pc' = "s_end"
    /\ UNCHANGED <<sFe, sArgs, sBlock, sPoll, sHash, stampWallet, sProof, sSaved, sSaves, sChan, sRunning, nonStamp>>

\* desktop run_stamp, "Compute hash"
DesktopRunStampHash ==
    /\ pc = "s_hash"
    /\ LET h == stamp_input_hash(sArgs.input, sArgs.hash_algorithm)
       IN  IF ~ h.ok
           THEN StampFails(sChan, "", h) /\ sHash' = sHash
           ELSE /\ sHash' = h.val
                /\ pc' = "s_new"
                /\ UNCHANGED <<sChan, sOutcome>>
    /\ UNCHANGED <<sFe, sArgs, sBlock, sPoll, stampWallet, sProof, sSaved, sSaves, sPhase, sRunning, nonStamp>>

\* ZotsWallet::new; the tui task announces the Syncing phase first
StampWalletNew ==
    /\ pc = "s_new"
    /\ sCalls' = Append(sCalls, "new")
    /\ LET chan == IF sFe = "tui" THEN Append(sChan, PhaseMsg("Syncing")) ELSE sChan
       IN  \E ok \in BOOLEAN :
             IF ok
             THEN pc' = "s_init" /\ sChan' = chan /\ sOutcome' = sOutcome
             ELSE StampFails(chan, "Wallet error", NetworkError)
    /\ UNCHANGED <<sFe, sArgs, sBlock, sPoll, sHash, sTx, sStart, sRound, sConf, sProof, sSaved, sSaves,
                   sPhase, sRunning, nonStamp>>

\* wallet.init_account()
StampInitAccount ==
    /\ pc = "s_init"
    /\ sCalls' = Append(sCalls, "init_account")
    /\ \E ok \in BOOLEAN :
         IF ok
         THEN pc' = "s_sync" /\ UNCHANGED <<sChan, sOutcome>>
         ELSE StampFails(sChan, "Account init error", NetworkError)
    /\ UNCHANGED <<sFe, sArgs, sBlock, sPoll, sHash, sTx, sStart, sRound, sConf, sProof, sSaved, sSaves,
                   sPhase, sRunning, nonStamp>>

\* wallet.sync(); the tui task announces the Broadcasting phase after it
StampSync ==
    /\ pc = "s_sync"
    /\ sCalls' = Append(sCalls, "sync")
    /\ \E ok \in BOOLEAN :
         IF ok
         THEN /\ pc' = "s_create"
              /\ sChan' = IF sFe = "tui" THEN Append(sChan, PhaseMsg("Broadcasting"))
                          ELSE sChan
              /\ sOutcome' = sOutcome
         ELSE StampFails(sChan, "Sync failed", NetworkError)
    /\ UNCHANGED <<sFe, sArgs, sBlock, sPoll, sHash, sTx, sStart, sRound, sConf, sProof, sSaved, sSaves,
                   sPhase, sRunning, nonStamp>>

\* wallet.create_timestamp_tx(&hash_bytes) and what follows it up to the next wallet
\* call: the CLI creates the proof and, with --no-wait, saves it and returns; the tui
\* task announces the WaitingConfirmation phase
StampCreateTx ==
    /\ pc = "s_create"
    /\ sCalls' = Append(sCalls, "create_timestamp_tx")
    /\ \E r \in CreateResults, saved_ok \in BOOLEAN, block \in StampBlocks :
         LET p == new_with_algorithm(sHash.hash, sArgs.hash_algorithm)
         IN  IF ~ r.ok
             THEN /\ StampFails(sChan, "Transaction failed", r)
                  /\ UNCHANGED <<sTx, sProof, sSaved, sSaves, sBlock>>
             ELSE IF sFe = "cli" /\ sArgs.no_wait
             THEN /\ sTx' = r
                  /\ sBlock' = block
                  /\ sProof' = p
                  /\ sSaves' = Append(sSaves, saved_ok)
                  /\ IF saved_ok
                     THEN /\ sSaved' = FileWith(p)
                          /\ sOutcome' = StampEnd("pending", "", NoResult, NoStampResult)
                          /\ sChan' = sChan
                          /\ pc' = "s_end"
                     ELSE /\ sSaved' = sSaved
                          /\ StampFails(sChan, "", Io("cannot write file"))
             ELSE /\ sTx' = r
                  /\ sBlock' = block
                  /\ sProof' = IF sFe = "cli" THEN p ELSE sProof
                  /\ UNCHANGED <<sSaved, sSaves>>
                  /\ sChan' = IF sFe = "tui"
                              THEN Append(sChan, PhaseMsg("WaitingConfirmation"))
                              ELSE sChan
                  /\ sOutcome' = sOutcome
                  /\ pc' = "s_wait"
    /\ UNCHANGED <<sFe, sArgs, sPoll, sHash, sStart, sRound, sConf, sPhase, sRunning, nonStamp>>

\* wait_confirmation returned an error, and the tui task saves the proof with an
\* attestation made of the transaction alone
StampConfirmFails_attested(error) ==
    IF sFe = "tui"
    THEN /\ \E saved_ok \in BOOLEAN :
              /\ sSaves' = Append(sSaves, saved_ok)
              /\ sSaved' = IF saved_ok
                           THEN FileWith(add_attestation(
                                new_with_algorithm(sHash.hash, sArgs.hash_algorithm),
                                ZcashAttestation(sArgs.config.val, sTx.val.txid_bytes,
                                                 0, 0, 0)))
                           ELSE sSaved
         /\ StampFails(sChan, "TX broadcast but confirmation timed out", error)
    ELSE /\ UNCHANGED <<sSaved, sSaves>>
         /\ StampFails(sChan, "", error)

\* wait_confirmation returned an error: the CLI run and desktop run_stamp pass it on,
\* the tui task saves a pending proof, whether or not the save works, and sends
\* StampFailed
StampConfirmFails(error) ==
    IF sFe = "tui"
    THEN /\ \E saved_ok \in BOOLEAN :
              /\ sSaves' = Append(sSaves, saved_ok)
              /\ sSaved' = IF saved_ok
                           THEN FileWith(new_with_algorithm(sHash.hash, sArgs.hash_algorithm))
                           ELSE sSaved
         /\ StampFails(sChan, "TX broadcast but confirmation timed out", error)
    ELSE /\ UNCHANGED <<sSaved, sSaves>>
         /\ StampFails(sChan, "", error)

\* wait_confirmation: let start_height = self.get_block_height().await?
StampWaitStart ==
    /\ pc = "s_wait"
    /\ sCalls' = Append(sCalls, "wait_confirmation")
    /\ \E h \in { Ok(n) : n \in StampHeights } \cup { NetworkError } :
         IF h.ok
         THEN /\ sStart' = h.val
              /\ sRound' = 0
              /\ pc' = "s_round"
              /\ UNCHANGED <<sSaved, sSaves, sChan, sOutcome>>
         ELSE /\ StampConfirmFails(h)
              /\ UNCHANGED <<sStart, sRound>>
    /\ UNCHANGED <<sFe, sArgs, sBlock, sPoll, sHash, sTx, sConf, sProof, sPhase, sRunning, nonStamp>>

\* wait_confirmation: one pass of for i in 0..max_blocks
StampWaitRound ==
    /\ pc = "s_round"
    /\ sRound < WaitMaxBlocks
    /\ \E synced \in { Ok(TRUE), NetworkError },
          current_height \in { Ok(sStart), Ok(sStart + 1), NetworkError },
          now \in StampTimes :
         LET w == wait_confirmation_round(sStart, synced, current_height, now)
         IN  /\ sPoll' = [synced |-> synced, current_height |-> current_height]
             /\ IF ~ w.done
                THEN /\ sRound' = sRound + 1
                     /\ pc' = "s_round"
                     /\ UNCHANGED <<sConf, sSaved, sSaves, sChan, sOutcome>>
                ELSE IF w.r.ok
                THEN /\ sConf' = w.r
                     /\ pc' = "s_record"
                     /\ UNCHANGED <<sRound, sSaved, sSaves, sChan, sOutcome>>
                ELSE /\ StampConfirmFails(w.r)
                     /\ UNCHANGED <<sRound, sConf>>
    /\ UNCHANGED <<sFe, sArgs, sBlock, sHash, sCalls, sTx, sStart, sProof, sPhase, sRunning,
                   nonStamp>>

\* wait_confirmation: the loop is over and nothing was confirmed
StampWaitTimeout ==
    /\ pc = "s_round"
    /\ sRound = WaitMaxBlocks
    /\ StampConfirmFails(wait_confirmation_timeout)
    /\ UNCHANGED <<sFe, sArgs, sBlock, sPoll, sHash, stampWallet, sProof, sPhase, sRunning, nonStamp>>

\* after the confirmation: add the attestation, save the proof, report
StampRecord ==
    /\ pc = "s_record"
    /\ LET network == sArgs.config.val
           att == IF sFe = "cli"
                  THEN cli_stamp_attestation(network, sTx.val, sConf.val)
                  ELSE IF sFe = "tui"
                  THEN tui_stamp_attestation(network, sTx.val, sConf.val)
                  ELSE desktop_stamp_attestation(network, sTx.val, sConf.val)
           p == add_attestation(IF sFe = "cli" THEN sProof
                                ELSE new_with_algorithm(sHash.hash, sArgs.hash_algorithm),
                                att)
           result == StampResult(sHash.hash, sTx.val, sConf.val, sHash.output_path)
       IN  /\ sProof' = p
           /\ \E saved_ok \in BOOLEAN :
                /\ sSaves' = Append(sSaves, saved_ok)
                /\ IF ~ saved_ok
                   THEN /\ sSaved' = sSaved
                        /\ StampFails(sChan, "Save error", Io("cannot write file"))
                   ELSE /\ sSaved' = FileWith(p)
                        /\ pc' = "s_end"
                        /\ IF sFe = "cli"
                           THEN /\ sOutcome' = StampEnd("complete", "", NoResult, result)
                                /\ sChan' = sChan
                           ELSE /\ sOutcome' = sOutcome
                                /\ sChan' = Append(sChan, StampCompleteMsg(result))
    /\ UNCHANGED <<sFe, sArgs, sBlock, sPoll, sHash, stampWallet, sPhase, sRunning, nonStamp>>

\* tui App::tick: every message waiting in the channel is handled
TuiStampTick ==
    /\ sFe = "tui"
    /\ Len(sChan) > 0
    /\ LET app == tick_all(<<sPhase, sRunning, sOutcome>>, sChan)
       IN  /\ sPhase' = app[1]
           /\ sRunning' = app[2]
           /\ sOutcome' = app[3]
    /\ sChan' = << >>
    /\ UNCHANGED <<pc, sFe, sArgs, sBlock, sPoll, sHash, stampWallet, sProof, sSaved, sSaves, nonStamp>>

\* desktop update: Message::StampComplete and Message::StampFailed
DesktopStampUpdate ==
    /\ sFe = "desktop"
    /\ Len(sChan) > 0
    /\ sPhase' = Head(sChan).phase
    /\ sOutcome' = Head(sChan).end
    /\ sChan' = Tail(sChan)
    /\ UNCHANGED <<pc, sFe, sArgs, sBlock, sPoll, sHash, stampWallet, sProof, sSaved, sSaves, sRunning, nonStamp>>

NextStamp ==
    \/ CliStampHash
    \/ TuiStartStampTask
    \/ DesktopStartStamp
    \/ DesktopRunStampHash
    \/ StampWalletNew
    \/ StampInitAccount
    \/ StampSync
    \/ StampCreateTx
    \/ StampWaitStart
    \/ StampWaitRound
    \/ StampWaitTimeout
    \/ StampRecord
    \/ TuiStampTick
    \/ DesktopStampUpdate

SpecStamp == InitStamp /\ [][NextStamp]_vars

-----------------------------------------------------------------------------
(* Claims about the stamp flows *)

\* where create_timestamp_memo puts the hash: the offsets at which the memo made for the
\* hash of the flow reads as that hash
MemoHashOffsets ==
    { k \in 0..(MemoSize - HashLen) :
        SubSeq(create_timestamp_memo(sHash.hash), k + 1, k + HashLen) = sHash.hash }

\* C18: every attestation created by a stamp flow (CLI stamp, tui run_stamp_task,
\* desktop run_stamp) records memo_offset = 8, the offset at which
\* create_timestamp_memo places the hash after the 8-byte magic header.
C18_StampMemoOffset ==
    \A i \in 1..Len(sProof.attestations) :
        /\ sProof.attestations[i].memo_offset = Len(ZOTS_MAGIC)
        /\ sProof.attestations[i].memo_offset \in MemoHashOffsets

-----------------------------------------------------------------------------
(* Claims about the algorithm and the attestation a verification uses *)

\* the comparison result a verification carries: in the report once it is done, on
\* the way to the wallet before
CarriedMatch == IF pc = "done" THEN outcome.file_hash_matches ELSE file_hash_matches

\* C19: when verification recomputes the hash of the supplied file or hex hash it
\* uses the hash algorithm recorded in the loaded proof, never a default or a
\* user-selected one, and the comparison with the proof hash is made on that
\* recomputed value.
C19_RecomputeWithProofAlgorithm ==
    CarriedMatch # "none" =>
        /\ load(proofFile).ok
        /\ SuppliedHash.ok
        /\ (CarriedMatch = "true") <=> (SuppliedHash.val = load(proofFile).val.hash)

\* a BLAKE3 proof of the document, verified against the document: it matches, which it
\* would not under SHA-256
C19_Witness ==
    /\ pc = "done"
    /\ load(proofFile).ok
    /\ load(proofFile).val.hash_algorithm = "Blake3"
    /\ supplied = DocPath
    /\ outcome.file_hash_matches = "true"
    /\ hash_file_with(DocPath, "Sha256").val # load(proofFile).val.hash

\* what the wallet answers for the first attestation of the loaded proof
FirstAttestationResult ==
    LET p == load(proofFile).val
    IN  verify_timestamp_tx(chain, p.attestations[1].txid, p.hash,
                            Some(p.attestations[1].block_height))

\* C20: for a proof with one or more attestations, verification checks only
\* attestations[0]: the txid and block height passed to the wallet and the metadata
\* shown in the result are those of the first attestation, and the outcome does not
\* depend on any later attestation.
C20_OnlyFirstAttestation ==
    (load(proofFile).ok /\ Len(load(proofFile).val.attestations) > 0) =>
        LET first == load(proofFile).val.attestations[1]
        IN  /\ \A i \in 1..Len(walletCalls) :
                  walletCalls[i].op = "verify_timestamp_tx" =>
                      /\ walletCalls[i].txid = first.txid
                      /\ walletCalls[i].block_height = Some(first.block_height)
            /\ walletResult \in { NoResult, NetworkError, Ok(FirstAttestationResult) }
            /\ (pc = "done" /\ outcome.att # NoAtt) => outcome.att = first
            /\ (pc = "done" /\ walletResult.ok) =>
                  /\ ~ outcome.isErr
                  /\ outcome.valid = FirstAttestationResult.valid
                  /\ outcome.error = FirstAttestationResult.error

\* two attestations, the first of a transaction the wallet does not find, the second
\* of one that carries the hash: the verification is done and reports the first
C20_Witness ==
    /\ pc = "done"
    /\ load(proofFile).ok
    /\ Len(load(proofFile).val.attestations) = 2
    /\ walletResult.ok
    /\ ~ chain[load(proofFile).val.attestations[1].txid].found
    /\ chain[load(proofFile).val.attestations[2].txid] = DocMemosFound
    /\ ~ outcome.valid
    /\ outcome.att = load(proofFile).val.attestations[1]

\* the calls of a stamp flow to the wallet so far include op
StampCalled(op) == \E i \in 1..Len(sCalls) : sCalls[i] = op

\* a proof is stored at the output path
StampSaved == sSaved.state = "proof"

\* C21: in every stamp flow an attestation is added to the proof only after the
\* transaction was created and wait_confirmation returned successfully; a proof saved
\* with --no-wait or after a confirmation failure has zero attestations (pending).
C21_AttestationAfterConfirmation ==
    /\ Len(sProof.attestations) > 0 =>
          /\ sTx.ok
          /\ sConf.ok
          /\ StampCalled("create_timestamp_tx")
          /\ StampCalled("wait_confirmation")
          /\ sProof.attestations[1].txid = sTx.val.txid_bytes
          /\ sProof.attestations[1].block_height = sConf.val.block_height
    /\ StampSaved =>
          /\ sTx.ok
          /\ sSaved.proof.hash = sHash.hash
          /\ Len(sSaved.proof.attestations) > 0 => (sConf.ok /\ sSaved.proof = sProof)
          /\ ~ sConf.ok => sSaved.proof.attestations = << >>
          /\ (sFe = "cli" /\ sArgs.no_wait) => sSaved.proof.attestations = << >>

\* a flow that went through to the confirmation and saved the proof with its attestation
C21_Witness ==
    /\ pc = "s_end"
    /\ StampSaved
    /\ Len(sSaved.proof.attestations) = 1
    /\ sTx.ok
    /\ sConf.ok

\* C22: wait_confirmation(txid, max_blocks) returns success only if the transaction
\* identified by txid has been included in a block, and the block_height and
\* block_time it returns are those of the block containing that transaction.
C22_ConfirmationIsOfTransaction ==
    sConf.ok =>
        /\ sBlock.mined
        /\ sConf.val.block_height = sBlock.height
        /\ sConf.val.block_time = sBlock.time

\* the error a stamp flow ends with: what the CLI returns, what the task has sent or
\* the front end shows
StampError ==
    IF \E i \in 1..Len(sChan) : sChan[i].kind # "Phase"
    THEN sChan[CHOOSE i \in 1..Len(sChan) : sChan[i].kind # "Phase"].end.error
    ELSE sOutcome.error

\* the number of wait_confirmation calls a stamp flow made
WaitCalls == Cardinality({ i \in 1..Len(sCalls) : sCalls[i] = "wait_confirmation" })

\* the latest pass of the loop got an error from sync or from get_block_height
PollFailed == sPoll # NoPoll /\ (~ sPoll.synced.ok \/ ~ sPoll.current_height.ok)

\* the error of the latest pass: the one of sync if it failed, else the height query's
PollError == IF ~ sPoll.synced.ok THEN sPoll.synced ELSE sPoll.current_height

WaitBounded ==
    /\ sRound \in 0..WaitMaxBlocks
    /\ WaitCalls <= 1
    /\ PollFailed =>
          /\ pc = "s_end"
          /\ ~ sConf.ok
          /\ StampError = PollError
    /\ (pc = "s_end" /\ sRound = WaitMaxBlocks /\ ~ PollFailed) =>
          /\ ~ sConf.ok
          /\ StampError = wait_confirmation_timeout

WaitStep ==
    /\ sRound' \in { sRound, sRound + 1 }
    /\ sRound' = sRound + 1 =>
          /\ pc = "s_round"
          /\ pc' = "s_round"
          /\ sPoll'.synced.ok
          /\ sPoll'.current_height.ok
          /\ ~ (sPoll'.current_height.val > sStart)
    /\ (pc = "s_round" /\ pc' # "s_round") => pc' \in { "s_record", "s_end" }
    /\ (pc = "s_round" /\ sRound = WaitMaxBlocks /\ pc' # pc) =>
          /\ pc' = "s_end"
          /\ StampError' = wait_confirmation_timeout
    /\ pc = "s_end" => (pc' = "s_end" /\ sCalls' = sCalls)

\* C23: wait_confirmation(txid, max_blocks) terminates after at most max_blocks polling
\* rounds: if no round confirms the transaction it returns a 'not confirmed' error
\* rather than looping further, a sync or height-query error ends it immediately with
\* that error, and callers do not retry it.
C23_WaitTerminates == [] WaitBounded /\ [][WaitStep]_vars

\* max_blocks passes saw no new block, and the flow ended with the 'not confirmed' error
C23_Witness ==
    /\ pc = "s_end"
    /\ sRound = WaitMaxBlocks
    /\ WaitCalls = 1
    /\ ~ sConf.ok
    /\ StampError = wait_confirmation_timeout

\* the number of verify calls a verification made to the wallet
VerifyCalls ==
    Cardinality({ i \in 1..Len(walletCalls) : walletCalls[i].op = "verify_timestamp_tx" })

\* what a verification ended with: what is reported, or what the task has sent
VerifyEnded == IF pc = "done" THEN outcome ELSE taskMsg

OneVerifyCall ==
    /\ VerifyCalls <= 1
    /\ walletResult # NoResult =>
          /\ VerifyCalls = 1
          /\ pc \in { "deliver", "done" }
          /\ IF walletResult.ok
             THEN /\ ~ VerifyEnded.isErr
                  /\ VerifyEnded.valid = walletResult.val.valid
                  /\ VerifyEnded.error = walletResult.val.error
             ELSE /\ ~ VerifyEnded.valid
                  /\ VerifyEnded.error = walletResult.msg

NoSecondCall ==
    walletResult # NoResult => (walletCalls' = walletCalls /\ walletResult' = walletResult)

\* C24: one verification run makes at most one verify call to the wallet (for the first
\* attestation) and never retries it: whatever the wallet returns (valid, invalid with
\* reason, or error) ends the run with that outcome.
C24_SingleVerifyCall == [] OneVerifyCall /\ [][NoSecondCall]_vars

\* the wallet failed on the one call made, and the run is over with that error
C24_Witness ==
    /\ pc = "done"
    /\ walletResult = NetworkError
    /\ VerifyCalls = 1
    /\ ~ outcome.valid
    /\ outcome.error = NetworkError.msg

\* the bytes d hold a whole record: every field is there in full, the magic,
\* version and hash type are the supported ones, and each of the attestations
\* the count byte announces has the Zcash type and a known network byte
WholeRecord(d) ==
    /\ Len(d) >= 11 + HashLen
    /\ SubSeq(d, 1, 8) = ZOTS_MAGIC
    /\ d[9] = PROOF_VERSION
    /\ d[10] = HASH_TYPE_SHA256
    /\ Len(d) >= 11 + HashLen + AttLen * d[11 + HashLen]
    /\ \A i \in 0..(d[11 + HashLen] - 1) :
          /\ d[12 + HashLen + AttLen * i] = ATTESTATION_TYPE_ZCASH
          /\ d[13 + HashLen + AttLen * i] \in { Network_to_byte(n) : n \in Networks }

\* p is a proof with every field in its range
ValidProof(p) ==
    /\ p.version = PROOF_VERSION
    /\ Len(p.hash) = HashLen
    /\ \A i \in 1..Len(p.hash) : p.hash[i] \in 0..(U8Mod - 1)
    /\ \A i \in 1..Len(p.attestations) :
          /\ p.attestations[i].network \in Networks
          /\ Len(p.attestations[i].txid) = HashLen
          /\ p.attestations[i].block_height >= 0
          /\ p.attestations[i].block_height \div 16777216 < U8Mod
          /\ p.attestations[i].block_time >= 0
          /\ p.attestations[i].block_time \div 16777216 < U8Mod
          /\ p.attestations[i].memo_offset \in 0..(U8Mod * U8Mod - 1)

\* C25: deserialize is total over byte input: it returns either a fully valid proof or
\* an InvalidProof error; a short input, a wrong magic, a truncation at any field, an
\* unsupported hash type, an unknown attestation type or network byte in any attestation
\* fails the whole call, so no partially parsed proof is returned.
C25_DeserializeTotal ==
    pc = "deserialized" =>
        /\ dres.ok \/ dres.kind = "InvalidProof"
        /\ dres.ok <=> WholeRecord(data)
        /\ dres.ok =>
              /\ ValidProof(dres.val)
              /\ Len(dres.val.attestations) = data[11 + HashLen]
              /\ dres.val.hash = SubSeq(data, 11, 10 + HashLen)
              /\ \A i \in 1..Len(dres.val.attestations) :
                    serialize_att(dres.val.attestations[i])
                        = SubSeq(data, 12 + HashLen + AttLen * (i - 1),
                                 11 + HashLen + AttLen * i)

\* a record of two attestations whose second has an unknown network byte was
\* refused as a whole
C25_Witness ==
    /\ pc = "deserialized"
    /\ Len(proof.attestations) = 2
    /\ Len(data) = Len(buf)
    /\ data[13 + HashLen + AttLen] \notin { Network_to_byte(n) : n \in Networks }
    /\ \A k \in 1..Len(data) : k # 13 + HashLen + AttLen => data[k] = buf[k]
    /\ dres = InvalidProof("Unknown network byte", data[13 + HashLen + AttLen])

\* C26: serialize writes a count field equal to the number of attestations it then
\* writes, for every number n of attestations: the output is 43 + 44 * n bytes long and
\* deserialize of it returns exactly n attestations (the one-byte count does not wrap).
C26_CountFieldMatches ==
    (pc \in { "serialized", "deserialized" } /\ data = buf) =>
        /\ buf[11 + HashLen] = Len(proof.attestations)
        /\ Len(buf) = 11 + HashLen + AttLen * Len(proof.attestations)
        /\ pc = "deserialized" =>
              (dres.ok /\ Len(dres.val.attestations) = Len(proof.attestations))

\* every write of the proof file the flow attempted succeeded
SavesSucceeded == \A i \in 1..Len(sSaves) : sSaves[i]

\* C27: whenever a stamp flow has created and broadcast the timestamp transaction, a
\* proof file for that hash (pending or confirmed) is saved before the flow ends, also
\* when wait_confirmation fails or times out; in the CLI, the TUI and the desktop alike.
C27_ProofSavedAfterBroadcast ==
    (pc = "s_end" /\ sTx.ok /\ SavesSucceeded) =>
        (StampSaved /\ sSaved.proof.hash = sHash.hash)

-----------------------------------------------------------------------------
(* SpecTui: the terminal UI: App::new, the keys and ticks of run_app, the
   background tasks and their channel, and reset_state *)

\* most background tasks spawned in one run of the terminal UI
MaxTasks == 2

\* longest input buffer typed
MaxBuffer == 1

\* App::new
App_new(has_config) ==
    [state |-> "Menu", config |-> has_config, input_buffer |-> << >>,
     operation_phase |-> IF has_config THEN "Syncing" ELSE "Input",
     verify_step |-> "FileOrHash",
     task_running |-> has_config, qr_data |-> FALSE]

\* a task handed to tokio::spawn: which one, the wallet call it is at (0 before
\* it has run), what it has sent, and whether tick has received its last message
Spawned(kind) == [kind |-> kind, at |-> 0, sent |-> << >>, received |-> FALSE]

\* a TaskMessage on the channel, with the task that sent it
TaskMessage(id, tag, phase, valid) ==
    [task |-> id, tag |-> tag, phase |-> phase, valid |-> valid]

TerminalTags ==
    { "StampComplete", "StampFailed", "VerifyComplete", "VerifyFailed",
      "SyncComplete", "SyncFailed", "InitialSyncComplete", "InitialSyncFailed" }

\* one arm of the match of App::tick
tick_msg(a, m) ==
    CASE m.tag = "Phase" -> [a EXCEPT !.operation_phase = m.phase]
      [] m.tag = "Status" -> a
      [] m.tag = "StampComplete" ->
            [a EXCEPT !.operation_phase = "Complete", !.qr_data = TRUE,
                      !.task_running = FALSE]
      [] m.tag = "StampFailed" ->
            [a EXCEPT !.operation_phase = "Failed", !.qr_data = FALSE,
                      !.task_running = FALSE]
      [] m.tag = "VerifyComplete" ->
            [a EXCEPT !.qr_data = TRUE, !.verify_step = "Results",
                      !.operation_phase = IF m.valid THEN "Complete" ELSE "Failed",
                      !.task_running = FALSE]
      [] m.tag = "VerifyFailed" ->
            [a EXCEPT !.operation_phase = "Failed", !.qr_data = FALSE,
                      !.task_running = FALSE]
      [] m.tag = "SyncComplete" ->
            [a EXCEPT !.operation_phase = "Complete", !.task_running = FALSE]
      [] m.tag = "SyncFailed" ->
            [a EXCEPT !.operation_phase = "Failed", !.task_running = FALSE]
      [] m.tag \in { "InitialSyncComplete", "InitialSyncFailed" } ->
            [a EXCEPT !.operation_phase = "Input", !.task_running = FALSE]

\* App::tick: while let Ok(msg) = self.task_rx.try_recv()
RECURSIVE App_tick(_, _)
App_tick(a, rx) ==
    IF rx = << >> THEN a ELSE App_tick(tick_msg(a, Head(rx)), Tail(rx))

\* App::reset_state
reset_state(a) ==
    [a EXCEPT !.input_buffer = << >>, !.operation_phase = "Input",
              !.verify_step = "FileOrHash", !.task_running = FALSE,
              !.qr_data = FALSE]

\* what a key handler leaves: the App and the task it spawned, if any
Handled(a, spawn) == [app |-> a, spawn |-> spawn]

\* App::start_stamp_task; usable: the input names a file that can be hashed,
\* or is hex text of a digest
App_start_stamp_task(a, usable) ==
    IF a.input_buffer = << >> THEN Handled(a, "none")
    ELSE IF ~ a.config
    THEN Handled([a EXCEPT !.operation_phase = "Failed"], "none")
    ELSE IF ~ usable
    THEN Handled([a EXCEPT !.operation_phase = "Failed"], "none")
    ELSE Handled([a EXCEPT !.task_running = TRUE, !.operation_phase = "Syncing",
                           !.qr_data = FALSE], "stamp")

\* App::start_sync_task
App_start_sync_task(a) ==
    IF ~ a.config
    THEN Handled([a EXCEPT !.operation_phase = "Failed"], "none")
    ELSE Handled([a EXCEPT !.task_running = TRUE, !.operation_phase = "Syncing"],
                 "sync")

\* how the second step of the verify flow finds the proof: not loadable or not
\* comparable, not matching the input, without attestations, with an
\* attestation whose txid cannot be read, or with a readable attestation
VerifyOutcomes == { "rejected", "mismatch", "pending", "bad_txid", "attested" }

\* App::process_verify
App_process_verify(a, usable, found) ==
    IF a.verify_step = "FileOrHash"
    THEN IF a.input_buffer # << >> /\ usable
         THEN Handled([a EXCEPT !.verify_step = "ProofPath"], "none")
         ELSE Handled(a, "none")
    ELSE IF a.verify_step = "ProofPath"
    THEN IF a.task_running THEN Handled(a, "none")
         ELSE IF a.input_buffer = << >> \/ found = "rejected"
         THEN Handled([a EXCEPT !.qr_data = FALSE], "none")
         ELSE IF found = "mismatch"
         THEN Handled([a EXCEPT !.qr_data = TRUE, !.verify_step = "Results",
                                !.operation_phase = "Failed"], "none")
         ELSE IF found = "pending" \/ ~ a.config
         THEN Handled([a EXCEPT !.qr_data = TRUE, !.verify_step = "Results",
                                !.operation_phase = "Complete"], "none")
         ELSE IF found = "bad_txid"
         THEN Handled([a EXCEPT !.qr_data = TRUE, !.operation_phase = "Failed"],
                      "none")
         ELSE Handled([a EXCEPT !.qr_data = TRUE, !.task_running = TRUE,
                                !.verify_step = "Verifying",
                                !.operation_phase = "Syncing"], "verify")
    ELSE Handled(a, "none")

\* App::process_input without the task_running check
process_input_unguarded(a, usable, found) ==
    LET r == IF a.state = "Stamp"
             THEN IF a.operation_phase = "Input"
                  THEN App_start_stamp_task(a, usable)
                  ELSE Handled(a, "none")
             ELSE IF a.state = "Verify" THEN App_process_verify(a, usable, found)
             ELSE IF a.state = "Wallet"
             THEN IF a.input_buffer = << "s" >>
                  THEN App_start_sync_task(a)
                  ELSE Handled(a, "none")
             ELSE Handled(a, "none")
    IN  Handled([r.app EXCEPT !.input_buffer = << >>], r.spawn)

\* App::process_input
process_input(a, usable, found) ==
    IF a.task_running THEN Handled(a, "none")
    ELSE process_input_unguarded(a, usable, found)

\* App::can_toggle_qr
can_toggle_qr(a) ==
    /\ a.operation_phase \in { "Complete", "Failed" }
    /\ a.state \in { "Stamp", "Verify" }
    /\ a.qr_data

\* the keys pressed; "q" and Esc in the menu end the program and are left out
Keys == { "s", "v", "w", "q", "Enter", "Backspace", "Esc" }

\* App::handle_input
handle_input(a, key, usable, found) ==
    IF key = "q"
    THEN IF can_toggle_qr(a) THEN Handled(a, "none")
         ELSE IF ~ a.task_running
         THEN Handled([a EXCEPT !.input_buffer = Append(@, "q")], "none")
         ELSE Handled(a, "none")
    ELSE IF key = "Backspace"
    THEN IF ~ a.task_running /\ a.input_buffer # << >>
         THEN Handled([a EXCEPT !.input_buffer = SubSeq(@, 1, Len(@) - 1)], "none")
         ELSE Handled(a, "none")
    ELSE IF key = "Enter" THEN process_input(a, usable, found)
    ELSE IF ~ a.task_running
    THEN Handled([a EXCEPT !.input_buffer = Append(@, key)], "none")
    ELSE Handled(a, "none")

\* the match on app.state and key.code in run_app
run_app_key(a, key, usable, found) ==
    IF a.state = "Menu"
    THEN IF key = "s" THEN Handled([a EXCEPT !.state = "Stamp"], "none")
         ELSE IF key = "v" THEN Handled([a EXCEPT !.state = "Verify"], "none")
         ELSE IF key = "w" THEN Handled([a EXCEPT !.state = "Wallet"], "none")
         ELSE Handled(a, "none")
    ELSE IF key = "Esc"
    THEN Handled([a EXCEPT !.state = "Menu", !.input_buffer = << >>], "none")
    ELSE handle_input(a, key, usable, found)

\* the wallet calls of a background task, in order, and the save of the proof
TaskCalls(kind) ==
    IF kind = "stamp"
    THEN << "new", "init_account", "sync", "create_timestamp_tx",
            "wait_confirmation", "save" >>
    ELSE IF kind = "verify" THEN << "new", "init_account", "verify_timestamp_tx" >>
    ELSE << "new", "init_account", "sync" >>

Finished(t) == t.at > Len(TaskCalls(t.kind))

\* what a task sends just before its k-th call
Announce(id, kind, k) ==
    IF kind # "initial_sync" /\ k = 1
    THEN << TaskMessage(id, "Phase", "Syncing", FALSE),
            TaskMessage(id, "Status", "none", FALSE) >>
    ELSE IF kind = "stamp" /\ k = 4
    THEN << TaskMessage(id, "Phase", "Broadcasting", FALSE),
            TaskMessage(id, "Status", "none", FALSE) >>
    ELSE IF kind = "stamp" /\ k = 5
    THEN << TaskMessage(id, "Phase", "WaitingConfirmation", FALSE),
            TaskMessage(id, "Status", "none", FALSE) >>
    ELSE << >>

\* what a task sends when its k-th call has failed
OnError(id, kind, k) ==
    IF kind = "stamp" THEN << TaskMessage(id, "StampFailed", "none", FALSE) >>
    ELSE IF kind = "sync" THEN << TaskMessage(id, "SyncFailed", "none", FALSE) >>
    ELSE IF kind = "initial_sync"
    THEN << TaskMessage(id, "InitialSyncFailed", "none", FALSE) >>
    ELSE IF k = 3 THEN << TaskMessage(id, "VerifyComplete", "none", FALSE) >>
    ELSE << TaskMessage(id, "VerifyFailed", "none", FALSE) >>

\* what a task sends when its last call has succeeded
OnSuccess(id, kind, valid) ==
    IF kind = "stamp" THEN << TaskMessage(id, "StampComplete", "none", FALSE) >>
    ELSE IF kind = "sync" THEN << TaskMessage(id, "SyncComplete", "none", FALSE) >>
    ELSE IF kind = "initial_sync"
    THEN << TaskMessage(id, "InitialSyncComplete", "none", FALSE) >>
    ELSE << TaskMessage(id, "VerifyComplete", "none", valid) >>

\* a background task that returns without a message when a call fails
task_step_silent_error(t, id, ok, valid) ==
    LET n == Len(TaskCalls(t.kind))
        out == IF t.at = 0 THEN Announce(id, t.kind, 1)
               ELSE IF ~ ok THEN << >>
               ELSE IF t.at = n THEN OnSuccess(id, t.kind, valid)
               ELSE Announce(id, t.kind, t.at + 1)
    IN  [task |-> [t EXCEPT !.at = IF t.at > 0 /\ ~ ok THEN n + 1 ELSE t.at + 1,
                            !.sent = t.sent \o out],
         out |-> out]

\* run_stamp_task, run_sync_task, run_initial_sync_task, run_verify_task from
\* one await to the next: the task starts, or its call at t.at returns
task_step(t, id, ok, valid) ==
    LET n == Len(TaskCalls(t.kind))
        out == IF t.at = 0 THEN Announce(id, t.kind, 1)
               ELSE IF ~ ok THEN OnError(id, t.kind, t.at)
               ELSE IF t.at = n THEN OnSuccess(id, t.kind, valid)
               ELSE Announce(id, t.kind, t.at + 1)
    IN  [task |-> [t EXCEPT !.at = IF t.at > 0 /\ ~ ok THEN n + 1 ELSE t.at + 1,
                            !.sent = t.sent \o out],
         out |-> out]

InitTui ==
    /\ pc = "tui"
    /\ \E has_config \in BOOLEAN :
        /\ tapp = App_new(has_config)
        /\ tasks = IF has_config THEN << Spawned("initial_sync") >> ELSE << >>
    /\ task_rx = << >>
    /\ IdleCore
    /\ IdleMemo
    /\ IdleVerify
    /\ IdleCompact
    /\ IdleTxid
    /\ IdleHex
    /\ IdleStamp
    /\ IdleDesk

\* the keys pressed on a screen: the letters that only select a screen are
\* pressed in the menu
KeysAt(state) == IF state = "Menu" THEN Keys ELSE Keys \ { "v", "w" }

\* what the file system holds matters to the Enter key alone
EnterChoices(key, choices) ==
    IF key = "Enter" THEN choices ELSE { CHOOSE c \in choices : TRUE }

\* run_app: a key is read and handled
AppKey ==
    /\ pc = "tui"
    /\ \E key \in KeysAt(tapp.state) :
        \E usable \in EnterChoices(key, BOOLEAN), found \in EnterChoices(key, VerifyOutcomes) :
        LET r == run_app_key(tapp, key, usable, found)
        IN  /\ Len(r.app.input_buffer) <= MaxBuffer
            /\ r.spawn # "none" => Len(tasks) < MaxTasks
            /\ tapp' = r.app
            /\ tasks' = IF r.spawn # "none"
                        THEN Append(tasks, Spawned(r.spawn))
                        ELSE tasks
    /\ UNCHANGED <<pc, task_rx, nonTui>>

\* run_app: app.tick() receives everything that is on the channel
AppTick ==
    /\ pc = "tui"
    /\ task_rx # << >>
    /\ tapp' = App_tick(tapp, task_rx)
    /\ tasks' = [id \in 1..Len(tasks) |->
                    IF \E i \in 1..Len(task_rx) :
                            task_rx[i].task = id /\ task_rx[i].tag \in TerminalTags
                    THEN [tasks[id] EXCEPT !.received = TRUE]
                    ELSE tasks[id]]
    /\ task_rx' = << >>
    /\ UNCHANGED <<pc, nonTui>>

\* a background task runs up to its next await
AppTaskStep ==
    /\ pc = "tui"
    /\ \E id \in 1..Len(tasks), ok \in BOOLEAN, valid \in BOOLEAN :
        /\ ~ Finished(tasks[id])
        /\ LET r == task_step(tasks[id], id, ok, valid)
           IN  /\ tasks' = [tasks EXCEPT ![id] = r.task]
               /\ task_rx' = task_rx \o r.out
    /\ UNCHANGED <<pc, tapp, nonTui>>

\* app.reset_state()
AppResetState ==
    /\ pc = "tui"
    /\ tapp' = reset_state(tapp)
    /\ UNCHANGED <<pc, tasks, task_rx, nonTui>>

NextTui == AppKey \/ AppTick \/ AppTaskStep \/ AppResetState

SpecTui == InitTui /\ [][NextTui]_vars

\* the run_app loop as the program runs it: keys, ticks and tasks, every
\* spawned task being scheduled and tick being called again and again
NextTuiRun == AppKey \/ AppTick \/ AppTaskStep

SpecTuiRun ==
    InitTui /\ [][NextTuiRun]_vars /\ WF_vars(AppTick) /\ WF_vars(AppTaskStep)

\* the tasks spawned whose last message tick has not received
InFlight == { id \in 1..Len(tasks) : ~ tasks[id].received }

\* C28: in the TUI at most one background task is in flight at any time, and
\* task_running is true from the spawning of a task until tick has processed its
\* terminal message, under any interleaving of keys, screen changes, ticks and
\* reset_state calls.
C28_OneTaskInFlight ==
    /\ Cardinality(InFlight) <= 1
    /\ InFlight # {} => tapp.task_running

\* while task_running is true no key spawns a task or edits the input buffer
\* with a character or a backspace
RunningBlocksKeys ==
    [][tapp.task_running =>
          /\ Len(tasks') = Len(tasks)
          /\ tapp'.input_buffer \in { tapp.input_buffer, << >> }]_vars

\* the terminal messages among what a task has sent
TerminalsSent(t) == { i \in 1..Len(t.sent) : t.sent[i].tag \in TerminalTags }

\* a task that has returned has sent exactly one terminal message, as its last
\* message; a task that has not returned has sent none
TerminalLast ==
    \A id \in 1..Len(tasks) :
        IF Finished(tasks[id])
        THEN /\ Cardinality(TerminalsSent(tasks[id])) = 1
             /\ tasks[id].sent[Len(tasks[id].sent)].tag \in TerminalTags
        ELSE TerminalsSent(tasks[id]) = {}

\* the App is at rest
Settled ==
    /\ ~ tapp.task_running
    /\ tapp.operation_phase \in { "Input", "Complete", "Failed" }

\* the tick that receives a task's terminal message leaves the App at rest
ReceivedSettles ==
    (\E id \in 1..Len(tasks) : ~ tasks[id].received /\ tasks'[id].received) => Settled'

\* task id was spawned, tick has received its terminal message, and the App is at rest
TaskOver(id) == Len(tasks) >= id /\ tasks[id].received /\ Settled

\* C29: every TUI background task sends exactly one terminal message and sends it last,
\* so, each wallet call returning and tick running on, every started task eventually
\* leaves the app with task_running false and operation_phase in {Input, Complete,
\* Failed}, never stuck in Syncing, Broadcasting or WaitingConfirmation.
C29_TasksEndSettled ==
    /\ [] TerminalLast
    /\ [][ReceivedSettles]_vars
    /\ \A id \in 1..MaxTasks : (Len(tasks) >= id) ~> TaskOver(id)
    /\ (~ Settled) ~> Settled

\* a stamp task went through every phase, tick showed WaitingConfirmation, and
\* the task's StampComplete left the App at rest
C29_Witness ==
    /\ Len(tasks) = MaxTasks
    /\ tasks[MaxTasks].kind = "stamp"
    /\ tasks[MaxTasks].received
    /\ Len(tasks[MaxTasks].sent) = 7
    /\ tapp.operation_phase = "Complete"
    /\ ~ tapp.task_running

-----------------------------------------------------------------------------
(* SpecDesktop: the desktop application's stamp view: navigation, the stamp
   input and button, the run_stamp tasks and their completion messages *)

\* most run_stamp tasks started in one run of the desktop application
MaxStampTasks == 2

Views == { "Home", "Stamp", "Verify", "History", "Wallet", "Settings" }

\* what is typed into the stamp input
StampTexts == { << >>, << 97 >> }

\* ZotsApp::default, with the config ZotsApp::new reads from the environment
ZotsApp_new(has_config) ==
    [current_view |-> "Home", config |-> has_config, stamp_input |-> << >>,
     stamp_phase |-> "Idle", stamp_result |-> FALSE, stamp_error |-> FALSE]

\* StampPhase::is_busy
StampPhase_is_busy(phase) ==
    phase \in { "Syncing", "Broadcasting", "WaitingConfirmation" }

\* ZotsApp::clear_results
clear_results(z) ==
    [z EXCEPT !.stamp_error = FALSE, !.stamp_result = FALSE, !.stamp_phase = "Idle"]

\* ZotsApp::update, Message::NavigateTo(view)
update_NavigateTo(z, view) == clear_results([z EXCEPT !.current_view = view])

\* ZotsApp::update, Message::StampInputChanged(input)
update_StampInputChanged(z, input) == [z EXCEPT !.stamp_input = input]

\* ZotsApp::update, Message::StartStamp: the application and whether a
\* run_stamp task was started
update_StartStamp(z) ==
    IF z.stamp_input = << >> \/ ~ z.config
    THEN [app |-> [z EXCEPT !.stamp_error = TRUE], task |-> FALSE]
    ELSE [app |-> [z EXCEPT !.stamp_phase = "Syncing", !.stamp_error = FALSE,
                            !.stamp_result = FALSE],
          task |-> TRUE]

\* ZotsApp::update, Message::StampComplete(result)
update_StampComplete(z) ==
    [z EXCEPT !.stamp_result = TRUE, !.stamp_phase = "Complete"]

\* ZotsApp::update, Message::StampFailed(error)
update_StampFailed(z) ==
    [z EXCEPT !.stamp_error = TRUE, !.stamp_phase = "Failed"]

\* views::stamp::view: the stamp button has on_press(Message::StartStamp)
StampButtonEnabled(z) ==
    z.current_view = "Stamp" /\ ~ StampPhase_is_busy(z.stamp_phase)

\* a run_stamp task: whether it has returned, with what, and whether its
\* completion message has been handled by update
StampTask(returned, ok, delivered) ==
    [returned |-> returned, ok |-> ok, delivered |-> delivered]

InitDesktop ==
    /\ pc = "desktop"
    /\ \E has_config \in BOOLEAN : zapp = ZotsApp_new(has_config)
    /\ ztasks = << >>
    /\ IdleCore
    /\ IdleMemo
    /\ IdleVerify
    /\ IdleCompact
    /\ IdleTxid
    /\ IdleHex
    /\ IdleStamp
    /\ IdleTui

\* a navigation button of the sidebar is pressed
DeskNavigateTo ==
    /\ pc = "desktop"
    /\ \E view \in Views : zapp' = update_NavigateTo(zapp, view)
    /\ UNCHANGED <<pc, ztasks, nonDesk>>

\* the stamp input is edited
DeskStampInputChanged ==
    /\ pc = "desktop"
    /\ zapp.current_view = "Stamp"
    /\ \E input \in StampTexts : zapp' = update_StampInputChanged(zapp, input)
    /\ UNCHANGED <<pc, ztasks, nonDesk>>

\* the stamp button is pressed
DeskStartStamp ==
    /\ pc = "desktop"
    /\ StampButtonEnabled(zapp)
    /\ LET r == update_StartStamp(zapp)
       IN  /\ r.task => Len(ztasks) < MaxStampTasks
           /\ zapp' = r.app
           /\ ztasks' = IF r.task
                        THEN Append(ztasks, StampTask(FALSE, FALSE, FALSE))
                        ELSE ztasks
    /\ UNCHANGED <<pc, nonDesk>>

\* a run_stamp task returns
DeskRunStampReturns ==
    /\ pc = "desktop"
    /\ \E id \in 1..Len(ztasks), ok \in BOOLEAN :
        /\ ~ ztasks[id].returned
        /\ ztasks' = [ztasks EXCEPT ![id] = StampTask(TRUE, ok, FALSE)]
    /\ UNCHANGED <<pc, zapp, nonDesk>>

\* the completion message of a run_stamp task is handled by update
DeskStampCompletion ==
    /\ pc = "desktop"
    /\ \E id \in 1..Len(ztasks) :
        /\ ztasks[id].returned
        /\ ~ ztasks[id].delivered
        /\ zapp' = IF ztasks[id].ok
                   THEN update_StampComplete(zapp)
                   ELSE update_StampFailed(zapp)
        /\ ztasks' = [ztasks EXCEPT ![id].delivered = TRUE]
    /\ UNCHANGED <<pc, nonDesk>>

NextDesktop ==
    \/ DeskNavigateTo
    \/ DeskStampInputChanged
    \/ DeskStartStamp
    \/ DeskRunStampReturns
    \/ DeskStampCompletion

SpecDesktop == InitDesktop /\ [][NextDesktop]_vars

\* the run_stamp tasks that have not delivered StampComplete or StampFailed
StampsInFlight == { id \in 1..Len(ztasks) : ~ ztasks[id].delivered }

\* C30: in the desktop app at most one stamp task is in flight at any time: stamp_phase
\* is busy, so the stamp button emits no StartStamp, for as long as a started run_stamp
\* has not delivered StampComplete or StampFailed, under any interleaving of NavigateTo,
\* StartStamp and completion messages.
C30_OneStampInFlight ==
    /\ Cardinality(StampsInFlight) <= 1
    /\ StampsInFlight # {} =>
          (StampPhase_is_busy(zapp.stamp_phase) /\ ~ StampButtonEnabled(zapp))

====
